---- MODULE Spec2Model ----
(***************************************************************************)
(* A model of untex's LaTeX tokenizer (latex/token.rs), its highlighters   *)
(* (latex/highlight.rs) and its auto-indent formatter and renderer         *)
(* (latex/format.rs).                                                      *)
(*                                                                         *)
(* A source text is a sequence of bytes.  An ASCII byte is written as the  *)
(* one-character string of its character; the two bytes of the UTF-8       *)
(* encoding of a non-ASCII character are written "xC3" (lead byte) and     *)
(* "xA9" (continuation byte).  Spans are half-open byte ranges             *)
(* <<start, end>> counted from 0, as logos::Span.                          *)
(***************************************************************************)
EXTENDS Integers, Sequences, FiniteSets, TLC

VARIABLES
    source,                    \* the text handed to Token::lexer and write_formatted
    token_start, token_end,    \* logos::Lexer: span of the current token
    lexOut,                    \* the items Token::lexer(source).spanned() has yielded
    lexEnded,                  \* the lexer has returned None
    overflow_checks,           \* the build panics on integer overflow (else it wraps)
    formatter,                 \* the iterator write_formatted is called on
    fmt,                       \* that iterator: the AutoIndentFormatter's fields
    fmtOut,                    \* the items the iterator has yielded to write_formatted
    fmtLevels,                 \* target_indentation_level as each of them was yielded
    buffer,                    \* the bytes write_formatted has written
    pc,                        \* where write_formatted stands
    pass,                      \* 1: formatting the original, 2: formatting its output
    original,                  \* the text of pass 1
    hlIn,                      \* the items the highlighters have taken from upstream
    hlEnded,                   \* upstream, and so every highlighter, has returned None
    math,                      \* MathHighlighter's fields
    display_math,              \* DisplayMathHighlighter's fields
    inline_math,               \* InlineMathHighlighter's fields
    preamble,                  \* PreambleHighlighter's fields
    document,                  \* DocumentHighlighter's fields
    token_highlighter,         \* TokenHighlighter's fields
    hlOut,                     \* the items each highlighter has yielded
    sink,                      \* the calls write_colorized has made on its buffer
    token_stream,              \* the TokenStream Dependency::new iterates over
    dependencies,              \* the dependencies Dependency::new has pushed
    depsEnded                  \* the token stream has returned None

lexVars == <<token_start, token_end, lexOut, lexEnded>>

fmtVars == <<overflow_checks, formatter, fmt, fmtOut, fmtLevels, buffer, pc, pass, original>>

hlVars == <<hlIn, hlEnded, math, display_math, inline_math, preamble, document,
            token_highlighter, hlOut, sink>>

depsVars == <<token_stream, dependencies, depsEnded>>

vars == <<source, lexVars, fmtVars, hlVars, depsVars>>

(***************************************************************************)
(* Bounds of the model.                                                    *)
(***************************************************************************)
MaxLexFrags == 3

MaxFmtFrags == 4

MaxTokens == 3

MaxColorizeFrags == 4

MaxIndentFrags == 4

MaxDummyFrags == 4

MaxScanFrags == 2

MaxDepsFrags == 3

(***************************************************************************)
(* Characters.                                                             *)
(***************************************************************************)
Letters ==
    {"a", "b", "c", "d", "e", "f", "g", "h", "i", "j", "k", "l", "m",
     "n", "o", "p", "q", "r", "s", "t", "u", "v", "w", "x", "y", "z",
     "A", "B", "C", "D", "E", "F", "G", "H", "I", "J", "K", "L", "M",
     "N", "O", "P", "Q", "R", "S", "T", "U", "V", "W", "X", "Y", "Z"}

Digits == {"0", "1", "2", "3", "4", "5", "6", "7", "8", "9"}

Blanks == {" ", "\t"}

LeadBytes == {"xC3"}

ContinuationBytes == {"xA9"}

\* str::is_char_boundary: index i (0-based) of src starts a character or is the end
IsCharBoundary(src, i) ==
    \/ i = 0
    \/ i = Len(src)
    \/ i \in 1..(Len(src) - 1) /\ src[i + 1] \notin ContinuationBytes

\* number of bytes of the character that starts at position p (1-based) of src
RECURSIVE CharLen(_, _)
CharLen(src, p) ==
    IF p + 1 <= Len(src) /\ src[p + 1] \in ContinuationBytes
    THEN 1 + CharLen(src, p + 1)
    ELSE 1

RECURSIVE Concat(_)
Concat(ss) == IF ss = <<>> THEN <<>> ELSE Head(ss) \o Concat(Tail(ss))

\* source[span]
Slice(src, span) == SubSeq(src, span[1] + 1, span[2])

(***************************************************************************)
(* Token (latex/token.rs).  A token is a record of its variant (kind) and  *)
(* its payload: the environment name of EnvironmentBegin / EnvironmentEnd, *)
(* the string of OwnedString, and <<>> for every other variant.            *)
(***************************************************************************)
Tok(kind) == [kind |-> kind, payload |-> <<>>]

TokP(kind, payload) == [kind |-> kind, payload |-> payload]

\* the #[token(...)] attributes of Token: <<literal, variant>>
Literals ==
    { <<<<"&">>, "And">>, <<<<"*">>, "Asterix">>, <<<<"@">>, "At">>,
      <<<<"{">>, "BraceOpen">>, <<<<"}">>, "BraceClose">>,
      <<<<"]">>, "BracketClose">>, <<<<"[">>, "BracketOpen">>,
      <<<<":">>, "Colon">>, <<<<",">>, "Comma">>,
      <<<<"\\", "]">>, "DisplayMathClose">>, <<<<"\\", "[">>, "DisplayMathOpen">>,
      <<<<"\\", "d", "o", "c", "u", "m", "e", "n", "t", "c", "l", "a", "s", "s">>,
        "DocumentClass">>,
      <<<<"$">>, "DollarSign">>, <<<<".">>, "Dot">>,
      <<<<"\\", "\\">>, "DoubleBackslash">>, <<<<"$", "$">>, "DoubleDollarSign">>,
      <<<<"=">>, "EqualSign">>,
      <<<<"\\", "{">>, "EscapedChar">>, <<<<"\\", "}">>, "EscapedChar">>,
      <<<<"\\", "_">>, "EscapedChar">>, <<<<"\\", "$">>, "EscapedChar">>,
      <<<<"\\", "&">>, "EscapedChar">>, <<<<"\\", "%">>, "EscapedChar">>,
      <<<<"\\", "#">>, "EscapedChar">>,
      <<<<"!">>, "ExclamationMark">>, <<<<"#">>, "Hash">>, <<<<"^">>, "Hat">>,
      <<<<"-">>, "Hyphen">>,
      <<<<"\\", ")">>, "InlineMathClose">>, <<<<"\\", "(">>, "InlineMathOpen">>,
      <<<<"\\", ",">>, "InsertSpace">>, <<<<"\\", ":">>, "InsertSpace">>,
      <<<<"\\", ";">>, "InsertSpace">>, <<<<"\\", "!">>, "InsertSpace">>,
      <<<<"\\", " ">>, "InsertSpace">>,
      <<<<"\n">>, "Newline">>, <<<<"\r", "\n">>, "Newline">>,
      <<<<")">>, "ParenClose">>, <<<<"(">>, "ParenOpen">>, <<<<"+">>, "PlusSign">>,
      <<<<"?">>, "QuestionMark">>, <<<<";">>, "Semicolon">>, <<<<"~">>, "Tilde">>,
      <<<<"_">>, "Underscore">> }

\* the literal lit stands at position p of src
StartsWith(src, p, lit) ==
    /\ p + Len(lit) - 1 <= Len(src)
    /\ \A j \in 1..Len(lit) : src[p + j - 1] = lit[j]

\* length of the longest run of bytes of set that starts at position p
RECURSIVE RunLen(_, _, _)
RunLen(src, p, set) ==
    IF p <= Len(src) /\ src[p] \in set THEN 1 + RunLen(src, p + 1, set) ELSE 0

\* length of the longest run of bytes other than "\n" that starts at p (regex .*)
RECURSIVE DotStarLen(_, _)
DotStarLen(src, p) ==
    IF p <= Len(src) /\ src[p] # "\n" THEN 1 + DotStarLen(src, p + 1) ELSE 0

CommandNameLenOneLetter(src, p) ==
    IF StartsWith(src, p, <<"\\">>) /\ RunLen(src, p + 1, Letters) >= 1 THEN 2 ELSE 0

\* #[regex(r"\\[a-zA-Z]+")] CommandName: length of the match at p, 0 if none
CommandNameLen(src, p) ==
    IF StartsWith(src, p, <<"\\">>) /\ RunLen(src, p + 1, Letters) >= 1
    THEN 1 + RunLen(src, p + 1, Letters)
    ELSE 0

\* #[regex("%.*")] Comment
CommentLen(src, p) ==
    IF StartsWith(src, p, <<"%">>) THEN 1 + DotStarLen(src, p + 1) ELSE 0

\* prefix [a-zA-Z]+ \*? \} : the two environment regexes
EnvironmentLen(src, p, prefix) ==
    IF StartsWith(src, p, prefix)
    THEN LET q == p + Len(prefix)
             n == RunLen(src, q, Letters)
             s == IF StartsWith(src, q + n, <<"*">>) THEN 1 ELSE 0
         IN  IF n >= 1 /\ StartsWith(src, q + n + s, <<"}">>)
             THEN Len(prefix) + n + s + 1
             ELSE 0
    ELSE 0

\* #[regex(r"\\begin\{[a-zA-Z]+\*?\}", parse_environment_begin)]
EnvironmentBeginLen(src, p) ==
    EnvironmentLen(src, p, <<"\\", "b", "e", "g", "i", "n", "{">>)

\* #[regex(r"\\end\{[a-zA-Z]+\*?\}", parse_environment_end)]
EnvironmentEndLen(src, p) ==
    EnvironmentLen(src, p, <<"\\", "e", "n", "d", "{">>)

InvalidCommandLenNoRule(src, p) == 0

\* #[regex(r"\\[^a-zA-Z]")] InvalidCommand: a backslash and one more character
InvalidCommandLen(src, p) ==
    IF StartsWith(src, p, <<"\\">>) /\ p + 1 <= Len(src) /\ src[p + 1] \notin Letters
    THEN 1 + CharLen(src, p + 1)
    ELSE 0

\* #[regex("[0-9]+")] Number
NumberLen(src, p) == RunLen(src, p, Digits)

\* #[regex(r"[ \t]+")] TabsOrSpaces
TabsOrSpacesLen(src, p) == RunLen(src, p, Blanks)

WordLenOneLetter(src, p) == IF p <= Len(src) /\ src[p] \in Letters THEN 1 ELSE 0

\* #[regex("[a-zA-Z]+")] Word
WordLen(src, p) == RunLen(src, p, Letters)

ErrorLenToEnd(src, p) == Len(src) - p + 1

\* #[error] Other: one character, whatever its number of bytes
ErrorLenOneByte(src, p) == 1

ErrorLenNoBump(src, p) == 0

ErrorLen(src, p) == CharLen(src, p)

parse_environment_begin_from_brace(slice) == SubSeq(slice, 7, Len(slice) - 1)

\* callback of EnvironmentBegin: &slice[7..slice.len() - 1]
parse_environment_begin(slice) == SubSeq(slice, 8, Len(slice) - 1)

\* callback of EnvironmentEnd: &slice[5..slice.len() - 1]
parse_environment_end(slice) == SubSeq(slice, 6, Len(slice) - 1)

\* every rule that matches at position p: [kind, len, literal]
Candidates(src, p) ==
    { [kind |-> l[2], len |-> Len(l[1]), literal |-> TRUE] :
        l \in { x \in Literals : StartsWith(src, p, x[1]) } }
    \cup
    { c \in { [kind |-> "CommandName", len |-> CommandNameLen(src, p), literal |-> FALSE],
              [kind |-> "Comment", len |-> CommentLen(src, p), literal |-> FALSE],
              [kind |-> "EnvironmentBegin", len |-> EnvironmentBeginLen(src, p),
               literal |-> FALSE],
              [kind |-> "EnvironmentEnd", len |-> EnvironmentEndLen(src, p),
               literal |-> FALSE],
              [kind |-> "InvalidCommand", len |-> InvalidCommandLen(src, p),
               literal |-> FALSE],
              [kind |-> "Number", len |-> NumberLen(src, p), literal |-> FALSE],
              [kind |-> "TabsOrSpaces", len |-> TabsOrSpacesLen(src, p),
               literal |-> FALSE],
              [kind |-> "Word", len |-> WordLen(src, p), literal |-> FALSE] } :
        c.len > 0 }

MatchShortest(src, p) ==
    LET cs == Candidates(src, p)
    IN  IF cs = {}
        THEN [kind |-> "Other", len |-> ErrorLen(src, p)]
        ELSE LET best == CHOOSE c \in cs :
                            \A d \in cs : \/ d.len > c.len
                                          \/ d.len = c.len /\ (c.literal \/ ~d.literal)
             IN  [kind |-> best.kind, len |-> best.len]

MatchRegexFirst(src, p) ==
    LET cs == Candidates(src, p)
    IN  IF cs = {}
        THEN [kind |-> "Other", len |-> ErrorLen(src, p)]
        ELSE LET best == CHOOSE c \in cs :
                            \A d \in cs : \/ d.len < c.len
                                          \/ d.len = c.len /\ (~c.literal \/ d.literal)
             IN  [kind |-> best.kind, len |-> best.len]

\* the derived lexer at position p: the longest match, a #[token] before a #[regex]
\* of the same length; Other when nothing matches
Match(src, p) ==
    LET cs == Candidates(src, p)
    IN  IF cs = {}
        THEN [kind |-> "Other", len |-> ErrorLen(src, p)]
        ELSE LET best == CHOOSE c \in cs :
                            \A d \in cs : \/ d.len < c.len
                                          \/ d.len = c.len /\ (c.literal \/ ~d.literal)
             IN  [kind |-> best.kind, len |-> best.len]

\* the token of variant kind whose lexeme is slice
MakeToken(kind, slice) ==
    CASE kind = "EnvironmentBegin" -> TokP(kind, parse_environment_begin(slice))
      [] kind = "EnvironmentEnd" -> TokP(kind, parse_environment_end(slice))
      [] OTHER -> Tok(kind)

\* Token::lexer(src).spanned().collect(): the whole token stream of src from byte at
RECURSIVE Tokenize(_, _)
Tokenize(src, at) ==
    IF at >= Len(src)
    THEN <<>>
    ELSE LET m == Match(src, at + 1)
             span == <<at, at + m.len>>
         IN  <<<<MakeToken(m.kind, Slice(src, span)), span>>>> \o Tokenize(src, span[2])

(***************************************************************************)
(* Source texts: concatenations of a few fragments.                        *)
(***************************************************************************)
SourcesOf(frags, n) ==
    { Concat(fs) : fs \in UNION { [1..k -> frags] : k \in 0..n } }

LexFrags ==
    { <<"\\">>, <<"a">>, <<"1">>, <<" ">>, <<"\n">>, <<"\r">>, <<"$">>, <<"%">>,
      <<"{">>, <<"}">>, <<"*">>, <<"\t">>, <<"xC3", "xA9">>,
      <<"\\", "e", "n", "d", "{", "a">>, <<"\\", "b", "e", "g", "i", "n", "{">> }

\* commands, environment delimiters, and the characters that may follow a backslash
ScanFrags ==
    { <<"\\">>, <<"a">>, <<"e", "s">>, <<"{">>, <<"}">>, <<"*">>, <<"*", "}">>,
      <<"\\", "b", "e", "g", "i", "n">>, <<"\\", "e", "n", "d">>,
      <<"\\", "b", "e", "g", "i", "n", "{">>, <<"\\", "e", "n", "d", "{">>,
      <<"\\", "b", "e", "g", "i", "n", "{", "a">>, <<"\\", "e", "n", "d", "{", "a">>,
      <<"\\", "d", "o", "c", "u", "m", "e", "n", "t", "c", "l", "a", "s", "s">>,
      <<"_">>, <<"$">>, <<"&">>, <<"%">>, <<"#">>,
      <<",">>, <<":">>, <<";">>, <<"!">>, <<" ">>,
      <<"[">>, <<"]">>, <<"(">>, <<")">>,
      <<".">>, <<"+">>, <<"1">>, <<"\n">>, <<"xC3", "xA9">> }

(***************************************************************************)
(* The tokenizer as an iterator: one LexNext per call of next().           *)
(***************************************************************************)
IdleLexer ==
    /\ token_start = 0
    /\ token_end = 0
    /\ lexOut = <<>>
    /\ lexEnded = FALSE

LexNext ==
    /\ ~lexEnded
    /\ IF token_end >= Len(source)
       THEN /\ lexEnded' = TRUE
            /\ token_start' = token_end
            /\ UNCHANGED <<source, token_end, lexOut>>
       ELSE LET m == Match(source, token_end + 1)
                span == <<token_end, token_end + m.len>>
            IN  /\ token_start' = span[1]
                /\ token_end' = span[2]
                /\ lexOut' = Append(lexOut, <<MakeToken(m.kind, Slice(source, span)), span>>)
                /\ UNCHANGED <<source, lexEnded>>
    /\ UNCHANGED <<fmtVars, hlVars, depsVars>>

(***************************************************************************)
(* The dependency scanner (deps.rs) and the token stream it walks          *)
(* (chars.rs, token.rs).  The texts are ASCII, so that the offset of a     *)
(* character is its index; a character is named by its 1-based position,   *)
(* and 0 stands for None.  The nested Dependency::new of a pushed file      *)
(* reads that file from the file system and is not followed: a pushed      *)
(* dependency is its file name.                                            *)
(***************************************************************************)
\* Option::None of last_char
NoneChar == 0

\* the least and the greatest element of a non-empty set of numbers
Least(S) == CHOOSE x \in S : \A y \in S : x <= y

Greatest(S) == CHOOSE x \in S : \A y \in S : x >= y

\* TokenStream::new(CharStream::new(source)): char_iter counts the characters the
\* iterator has yielded
NewTokenStream ==
    [char_iter |-> 0,
     lineno |-> 0,
     last_char |-> NoneChar,
     start |-> 0,
     current_token_kind |-> "Error"]

\* CharStream::next
NextChar(src, ts) ==
    IF ts.char_iter < Len(src)
    THEN [ts EXCEPT !.char_iter = @ + 1,
                    !.last_char = ts.char_iter + 1,
                    !.lineno = IF src[ts.char_iter + 1] = "\n" THEN @ + 1 ELSE @]
    ELSE [ts EXCEPT !.last_char = NoneChar]

\* the character of last_char, "" for None
LastChar(src, ts) == IF ts.last_char = NoneChar THEN "" ELSE src[ts.last_char]

\* TokenStream::current_char
CurrentChar(src, ts) == IF ts.last_char # NoneChar THEN ts ELSE NextChar(src, ts)

\* TokenStream::current_token: the slice from start to last_char, or to the end
CurrentToken(src, ts) ==
    [slice |-> SubSeq(src, ts.start + 1,
                      IF ts.last_char = NoneChar THEN Len(src) ELSE ts.last_char - 1),
     kind |-> ts.current_token_kind]

\* loop { match self.next_char() { Some(c) if c is in set => continue, _ => break } }
RECURSIVE SkipWhile(_, _, _)
SkipWhile(src, ts, set) ==
    LET t == NextChar(src, ts)
    IN  IF LastChar(src, t) \in set THEN SkipWhile(src, t, set) ELSE t

\* loop { match self.next_char() { None => break, Some(c) if c is in set => break,
\*                                 _ => continue } }
RECURSIVE SkipUntil(_, _, _)
SkipUntil(src, ts, set) ==
    LET t == NextChar(src, ts)
    IN  IF t.last_char = NoneChar \/ LastChar(src, t) \in set
        THEN t
        ELSE SkipUntil(src, t, set)

WithKind(ts, kind) == [ts EXCEPT !.current_token_kind = kind]

\* ((brac as u8) + 2) as char
ClosingBracket(brac) == IF brac = "[" THEN "]" ELSE "}"

\* the loop over the characters of one argument, entered with level brackets open:
\* the stream and the level it is left with
RECURSIVE SkipGroup(_, _, _, _)
SkipGroup(src, ts, brac, level) ==
    LET t == NextChar(src, ts)
        c == LastChar(src, t)
    IN  IF t.last_char = NoneChar
        THEN [ts |-> t, level |-> level]
        ELSE IF c = brac
        THEN SkipGroup(src, t, brac, level + 1)
        ELSE IF c = ClosingBracket(brac)
        THEN IF level - 1 = 0
             THEN [ts |-> t, level |-> 0]
             ELSE SkipGroup(src, t, brac, level - 1)
        ELSE IF c = "\\"
        THEN LET u == NextChar(src, t)
             IN  IF u.last_char = NoneChar
                 THEN [ts |-> u, level |-> level]
                 ELSE SkipGroup(src, u, brac, level)
        ELSE SkipGroup(src, t, brac, level)

\* the loop over the optional and mandatory arguments of a command
RECURSIVE Arguments(_, _)
Arguments(src, ts) ==
    LET brac == LastChar(src, ts)
    IN  IF brac \in {"{", "["}
        THEN LET g == SkipGroup(src, ts, brac, 1)
             IN  IF g.level # 0
                 THEN WithKind(g.ts, "Error")
                 ELSE LET u == NextChar(src, g.ts)
                      IN  IF u.last_char = NoneChar THEN u ELSE Arguments(src, u)
        ELSE ts

\* the arm '\\' of TokenStream::next
CommandNext(src, ts) ==
    LET t == NextChar(src, WithKind(ts, "Command"))
    IN  IF t.last_char = NoneChar
        THEN WithKind(t, "Error")
        ELSE IF LastChar(src, t) \in Letters
        THEN LET u == SkipWhile(src, t, Letters)
             IN  IF LastChar(src, u) \in {"{", "["} THEN Arguments(src, u) ELSE u
        ELSE NextChar(src, NextChar(src, t))

\* the arm '$' of TokenStream::next
MathNext(src, ts) ==
    LET t == NextChar(src, WithKind(ts, "Math"))
    IN  IF t.last_char = NoneChar
        THEN WithKind(t, "Error")
        ELSE LET u == SkipUntil(src, t, {"$"})
             IN  IF u.last_char = NoneChar
                 THEN WithKind(u, "Error")
                 ELSE LET v == NextChar(src, u)
                      IN  IF LastChar(src, t) = "$"
                          THEN LET w == CurrentChar(src, v)
                               IN  IF LastChar(src, w) = "$"
                                   THEN NextChar(src, w)
                                   ELSE WithKind(w, "Error")
                          ELSE v

\* TokenStream::next: the stream after the call, and whether it returned Some; the
\* token returned is then current_token()
TokenStreamNext(src, ts) ==
    LET cur == CurrentChar(src, ts)
        c == LastChar(src, cur)
        t == [cur EXCEPT !.start = cur.last_char - 1]
    IN  IF cur.last_char = NoneChar
        THEN [ts |-> cur, some |-> FALSE]
        ELSE [ts |-> CASE c = "\n" ->
                            WithKind(SkipWhile(src, t, {" ", "\r", "\t"}), "Linebreak")
                       [] c = "%" -> WithKind(SkipUntil(src, t, {"\n"}), "Comment")
                       [] c = "\\" -> CommandNext(src, t)
                       [] c = "$" -> MathNext(src, t)
                       [] OTHER ->
                            WithKind(SkipUntil(src, t, {"\n", "%", "\\", "$"}), "Text"),
              some |-> TRUE]

\* the literal parts of the patterns
INPUT == <<"\\", "i", "n", "p", "u", "t">>

INCLUDEGRAPHICS == <<"\\", "i", "n", "c", "l", "u", "d", "e", "g", "r", "a", "p", "h", "i", "c", "s">>

BIBLIOGRAPHY == <<"\\", "b", "i", "b", "l", "i", "o", "g", "r", "a", "p", "h", "y">>

LSTINPUTLISTING == <<"\\", "l", "s", "t", "i", "n", "p", "u", "t", "l", "i", "s", "t", "i", "n", "g">>

INPUTMINTED == <<"\\", "i", "n", "p", "u", "t", "m", "i", "n", "t", "e", "d">>

DOTTXT == <<".", "t", "x", "t">>

\* Option<Captures>: None, and Some with the text of group 1
NoCaptures == [matched |-> FALSE, text |-> <<>>]

SomeCaptures(text) == [matched |-> TRUE, text |-> text]

\* \{([^\}]*)\} tried at position p: the position of the closing brace, 0 if the
\* pattern does not match there
BraceGroupEnd(s, p) ==
    IF p <= Len(s) /\ s[p] = "{" /\ \E q \in (p + 1)..Len(s) : s[q] = "}"
    THEN Least({q \in (p + 1)..Len(s) : s[q] = "}"})
    ELSE 0

\* Regex::captures for a pattern lit\{(.*)\}: the leftmost match, its .* greedy
\* and without "\n"
GreedyBraceCaptures(s, lit) ==
    LET from(p) == p + Len(lit) + 1
        ends(p) == {q \in from(p)..Len(s) :
                       /\ s[q] = "}"
                       /\ \A i \in from(p)..(q - 1) : s[i] # "\n"}
        starts == {p \in 1..Len(s) :
                      /\ StartsWith(s, p, lit \o <<"{">>)
                      /\ ends(p) # {}}
    IN  IF starts = {}
        THEN NoCaptures
        ELSE SomeCaptures(SubSeq(s, from(Least(starts)), Greatest(ends(Least(starts))) - 1))

\* Regex::captures for a pattern lit\{([^\}]*)\}
BraceCaptures(s, lit) ==
    LET starts == {p \in 1..Len(s) :
                      /\ StartsWith(s, p, lit)
                      /\ BraceGroupEnd(s, p + Len(lit)) # 0}
    IN  IF starts = {}
        THEN NoCaptures
        ELSE LET p == Least(starts) + Len(lit)
             IN  SomeCaptures(SubSeq(s, p + 1, BraceGroupEnd(s, p) - 1))

\* Regex::captures for a pattern lit(?:open.*close)\{([^\}]*)\}: the leftmost
\* match, its .* greedy and without "\n"
BracketedCaptures(s, lit, open, close) ==
    LET closes(p) == {r \in (p + Len(lit) + 1)..Len(s) :
                         /\ s[p + Len(lit)] = open
                         /\ s[r] = close
                         /\ \A i \in (p + Len(lit) + 1)..(r - 1) : s[i] # "\n"
                         /\ BraceGroupEnd(s, r + 1) # 0}
        starts == {p \in 1..Len(s) :
                      /\ StartsWith(s, p, lit)
                      /\ closes(p) # {}}
    IN  IF starts = {}
        THEN NoCaptures
        ELSE LET r == Greatest(closes(Least(starts)))
             IN  SomeCaptures(SubSeq(s, r + 2, BraceGroupEnd(s, r + 1) - 1))

RE_INPUT(s) == GreedyBraceCaptures(s, INPUT)

RE_IMAGE(s) == BracketedCaptures(s, INCLUDEGRAPHICS, "[", "]")

RE_BIBLI(s) == BraceCaptures(s, BIBLIOGRAPHY)

\* \{([^\}]*\.txt)\}
RE_TABLE(s) ==
    LET starts == {p \in 1..Len(s) :
                      /\ BraceGroupEnd(s, p) - p >= 5
                      /\ SubSeq(s, BraceGroupEnd(s, p) - 4, BraceGroupEnd(s, p) - 1) = DOTTXT}
    IN  IF starts = {}
        THEN NoCaptures
        ELSE SomeCaptures(SubSeq(s, Least(starts) + 1, BraceGroupEnd(s, Least(starts)) - 1))

RE_LISTI(s) == BracketedCaptures(s, LSTINPUTLISTING, "[", "]")

RE_MINTD(s) == BracketedCaptures(s, INPUTMINTED, "{", "}")

\* PathUtils::with_default_extension for a path without separators: extension()
\* is None if the name has no "." after its first character, and set_extension
\* leaves a path without file name alone
WithDefaultExtension(path, ext) ==
    IF path \in {<<>>, <<".">>, <<".", ".">>} \/ \E i \in 2..Len(path) : path[i] = "."
    THEN path
    ELSE path \o <<".">> \o ext

DependenciesOfAnyKind(token) ==
    IF RE_INPUT(token.slice).matched
    THEN <<WithDefaultExtension(RE_INPUT(token.slice).text, <<"t", "e", "x">>)>>
    ELSE IF RE_TABLE(token.slice).matched
    THEN <<WithDefaultExtension(RE_TABLE(token.slice).text, <<"t", "x", "t">>)>>
    ELSE <<>>

\* the body of the loop `for token in token_stream`: the file names pushed for one
\* token
DependenciesOf(token) ==
    IF token.kind = "Command"
    THEN IF RE_INPUT(token.slice).matched
         THEN <<WithDefaultExtension(RE_INPUT(token.slice).text, <<"t", "e", "x">>)>>
         ELSE IF RE_IMAGE(token.slice).matched
         THEN <<WithDefaultExtension(RE_IMAGE(token.slice).text, <<"p", "d", "f">>)>>
         ELSE IF RE_BIBLI(token.slice).matched
         THEN <<WithDefaultExtension(RE_BIBLI(token.slice).text, <<"b", "i", "b">>)>>
         ELSE IF RE_LISTI(token.slice).matched
         THEN <<WithDefaultExtension(RE_LISTI(token.slice).text, <<"t", "x", "t">>)>>
         ELSE IF RE_MINTD(token.slice).matched
         THEN <<WithDefaultExtension(RE_MINTD(token.slice).text, <<"t", "x", "t">>)>>
         ELSE <<>>
    ELSE IF token.kind = "Text"
    THEN IF RE_TABLE(token.slice).matched
         THEN <<WithDefaultExtension(RE_TABLE(token.slice).text, <<"t", "x", "t">>)>>
         ELSE <<>>
    ELSE <<>>

\* directives, a table file, and the characters that start the other tokens
DepsFrags ==
    { INPUT \o <<"{", "a", "}">>,
      INCLUDEGRAPHICS \o <<"[", "b", "]", "{", "a", "}">>,
      BIBLIOGRAPHY \o <<"{", "a", "}">>,
      LSTINPUTLISTING \o <<"[", "b", "]", "{", "a", "}">>,
      INPUTMINTED \o <<"{", "b", "}", "{", "a", "}">>,
      <<"{", "a">> \o DOTTXT \o <<"}">>,
      <<"%">>, <<"\n">>, <<"$">>, <<"a">>, <<"\\">> }

IdleDeps ==
    /\ token_stream = NewTokenStream
    /\ dependencies = <<>>
    /\ depsEnded = FALSE

\* one turn of the loop `for token in token_stream` of Dependency::new
DependencyNew ==
    /\ ~depsEnded
    /\ LET r == TokenStreamNext(source, token_stream)
       IN  /\ token_stream' = r.ts
           /\ IF r.some
              THEN /\ dependencies' =
                         dependencies \o DependenciesOf(CurrentToken(source, r.ts))
                   /\ UNCHANGED depsEnded
              ELSE /\ depsEnded' = TRUE
                   /\ UNCHANGED dependencies
    /\ UNCHANGED <<source, lexVars, fmtVars, hlVars>>

(***************************************************************************)
(* The highlighters (latex/highlight.rs).  A highlighter's next() is an    *)
(* operator from its fields and the item upstream yields to its fields     *)
(* after the call and the items it yields (one, or none if it panics).     *)
(***************************************************************************)
\* Option::None of closing_token
NoneToken == Tok("None")

DocumentName == <<"d", "o", "c", "u", "m", "e", "n", "t">>

EquationName == <<"e", "q", "u", "a", "t", "i", "o", "n">>

EquationStarName == <<"e", "q", "u", "a", "t", "i", "o", "n", "*">>

AlignName == <<"a", "l", "i", "g", "n">>

AlignStarName == <<"a", "l", "i", "g", "n", "*">>

FigureName == <<"f", "i", "g", "u", "r", "e">>

\* matches!(name, "equation" | "equation*" | "align" | "align*")
IsMathEnvironment(name) ==
    name \in {EquationName, EquationStarName, AlignName, AlignStarName}

\* MathHighlighter::new, DisplayMathHighlighter::new, InlineMathHighlighter::new
NewMathHighlighter ==
    [in_math_mode |-> FALSE, closing_token |-> NoneToken, panicked |-> FALSE]

\* the match on the token met outside math mode: the closing token it sets, None
\* for the arm `_`
MathCloserNoStar(token) ==
    CASE token = Tok("DisplayMathOpen") -> Tok("DisplayMathClose")
      [] token = Tok("DollarSign") -> Tok("DollarSign")
      [] token = Tok("DoubleDollarSign") -> Tok("DoubleDollarSign")
      [] token.kind = "EnvironmentBegin" /\ token.payload \in {EquationName, AlignName} ->
           TokP("EnvironmentEnd", token.payload)
      [] token = Tok("InlineMathOpen") -> Tok("InlineMathClose")
      [] OTHER -> NoneToken

MathCloserNoDollar(token) ==
    CASE token = Tok("DisplayMathOpen") -> Tok("DisplayMathClose")
      [] token = Tok("DoubleDollarSign") -> Tok("DoubleDollarSign")
      [] token.kind = "EnvironmentBegin" /\ IsMathEnvironment(token.payload) ->
           TokP("EnvironmentEnd", token.payload)
      [] token = Tok("InlineMathOpen") -> Tok("InlineMathClose")
      [] OTHER -> NoneToken

MathCloser(token) ==
    CASE token = Tok("DisplayMathOpen") -> Tok("DisplayMathClose")
      [] token = Tok("DollarSign") -> Tok("DollarSign")
      [] token = Tok("DoubleDollarSign") -> Tok("DoubleDollarSign")
      [] token.kind = "EnvironmentBegin" /\ IsMathEnvironment(token.payload) ->
           TokP("EnvironmentEnd", token.payload)
      [] token = Tok("InlineMathOpen") -> Tok("InlineMathClose")
      [] OTHER -> NoneToken

DisplayMathCloserWithDollar(token) == MathCloser(token)

DisplayMathCloserNoDoubleDollar(token) ==
    CASE token = Tok("DisplayMathOpen") -> Tok("DisplayMathClose")
      [] token.kind = "EnvironmentBegin" /\ IsMathEnvironment(token.payload) ->
           TokP("EnvironmentEnd", token.payload)
      [] OTHER -> NoneToken

DisplayMathCloser(token) ==
    CASE token = Tok("DisplayMathOpen") -> Tok("DisplayMathClose")
      [] token = Tok("DoubleDollarSign") -> Tok("DoubleDollarSign")
      [] token.kind = "EnvironmentBegin" /\ IsMathEnvironment(token.payload) ->
           TokP("EnvironmentEnd", token.payload)
      [] OTHER -> NoneToken

InlineMathCloserWithDisplay(token) == MathCloser(token)

InlineMathCloser(token) ==
    CASE token = Tok("DollarSign") -> Tok("DollarSign")
      [] token = Tok("InlineMathOpen") -> Tok("InlineMathClose")
      [] OTHER -> NoneToken

\* the branch `if self.in_math_mode`: the fields after it
InsideMathKeepOpen(h, token) == h

InsideMathKeepCloser(h, token) ==
    IF token = h.closing_token
    THEN [h EXCEPT !.in_math_mode = FALSE]
    ELSE h

InsideMathAnyCloser(h, token) ==
    IF \/ token \in {Tok("DisplayMathClose"), Tok("DollarSign"), Tok("DoubleDollarSign"),
                     Tok("InlineMathClose")}
       \/ token.kind = "EnvironmentEnd"
    THEN [h EXCEPT !.in_math_mode = FALSE, !.closing_token = NoneToken]
    ELSE h

InsideMathSameVariant(h, token) ==
    IF token.kind = h.closing_token.kind
    THEN [h EXCEPT !.in_math_mode = FALSE, !.closing_token = NoneToken]
    ELSE h

InsideMath(h, token) ==
    IF token = h.closing_token
    THEN [h EXCEPT !.in_math_mode = FALSE, !.closing_token = NoneToken]
    ELSE h

\* the branch `else`: in_math_mode = true, then the match that sets the closing
\* token or takes in_math_mode back
OutsideMathNoReset(h, closer) ==
    IF closer # NoneToken
    THEN [h EXCEPT !.in_math_mode = TRUE, !.closing_token = closer]
    ELSE [h EXCEPT !.in_math_mode = TRUE]

OutsideMath(h, closer) ==
    IF closer # NoneToken
    THEN [h EXCEPT !.in_math_mode = TRUE, !.closing_token = closer]
    ELSE [h EXCEPT !.in_math_mode = FALSE]

\* next() of the three math highlighters on Some(item), closer being the closing
\* token the highlighter's match gives for the item's token
MathModeNext(h, item, closer) ==
    IF h.in_math_mode
    THEN IF h.closing_token = NoneToken
         THEN [state |-> [h EXCEPT !.panicked = TRUE], out |-> <<>>]
         ELSE [state |-> InsideMath(h, item[1]), out |-> <<<<TRUE, item>>>>]
    ELSE LET g == OutsideMath(h, closer)
         IN  [state |-> g, out |-> <<<<g.in_math_mode, item>>>>]

\* MathHighlighter::next on Some(item)
MathHighlighterNext(h, item) == MathModeNext(h, item, MathCloser(item[1]))

\* DisplayMathHighlighter::next on Some(item)
DisplayMathHighlighterNext(h, item) == MathModeNext(h, item, DisplayMathCloser(item[1]))

\* InlineMathHighlighter::next on Some(item)
InlineMathHighlighterNext(h, item) == MathModeNext(h, item, InlineMathCloser(item[1]))

\* PreambleHighlighter::next on Some(item)
PreambleHighlighterNextOldFlag(h, item) ==
    LET g == CASE item[1] = Tok("DocumentClass") -> [h EXCEPT !.in_preamble = TRUE]
               [] item[1] = TokP("EnvironmentBegin", DocumentName) ->
                    [h EXCEPT !.in_preamble = FALSE]
               [] OTHER -> h
    IN  [state |-> g, out |-> <<<<h.in_preamble, item>>>>]

PreambleHighlighterNextFiltering(h, item) ==
    LET g == CASE item[1] = Tok("DocumentClass") -> [h EXCEPT !.in_preamble = TRUE]
               [] item[1] = TokP("EnvironmentBegin", DocumentName) ->
                    [h EXCEPT !.in_preamble = FALSE]
               [] OTHER -> h
    IN  [state |-> g, out |-> IF g.in_preamble THEN <<<<TRUE, item>>>> ELSE <<>>]

PreambleHighlighterNext(h, item) ==
    LET g == CASE item[1] = Tok("DocumentClass") -> [h EXCEPT !.in_preamble = TRUE]
               [] item[1] = TokP("EnvironmentBegin", DocumentName) ->
                    [h EXCEPT !.in_preamble = FALSE]
               [] OTHER -> h
    IN  [state |-> g, out |-> <<<<g.in_preamble, item>>>>]

DocumentHighlighterNextEndExcluded(h, item) ==
    LET g == CASE item[1] = TokP("EnvironmentBegin", DocumentName) ->
                    [h EXCEPT !.in_document = TRUE]
               [] item[1] = TokP("EnvironmentEnd", DocumentName) ->
                    [h EXCEPT !.in_document = FALSE]
               [] OTHER -> h
    IN  [state |-> g, out |-> <<<<g.in_document, item>>>>]

\* DocumentHighlighter::next on Some(item)
DocumentHighlighterNext(h, item) ==
    CASE item[1] = TokP("EnvironmentBegin", DocumentName) ->
           [state |-> [h EXCEPT !.in_document = TRUE], out |-> <<<<TRUE, item>>>>]
      [] item[1] = TokP("EnvironmentEnd", DocumentName) ->
           [state |-> [h EXCEPT !.in_document = FALSE], out |-> <<<<TRUE, item>>>>]
      [] OTHER -> [state |-> h, out |-> <<<<h.in_document, item>>>>]

TokenHighlighterNextWholeToken(h, item) ==
    [state |-> h, out |-> <<<<item[1] = Tok(h.token), item>>>>]

\* TokenHighlighter::next on Some(item); TokenDiscriminants::from(&token) is the
\* token's variant
TokenHighlighterNext(h, item) ==
    [state |-> h, out |-> <<<<item[1].kind = h.token, item>>>>]

\* the tokens upstream may yield
HLTokens ==
    { Tok(k) : k \in {"DisplayMathOpen", "DisplayMathClose", "DollarSign",
                      "DoubleDollarSign", "InlineMathOpen", "InlineMathClose",
                      "DocumentClass", "Word"} }
    \cup { TokP("EnvironmentBegin", n) :
             n \in {EquationName, EquationStarName, AlignName, AlignStarName,
                    DocumentName, FigureName} }
    \cup { TokP("EnvironmentEnd", n) :
             n \in {EquationName, EquationStarName, AlignName, AlignStarName,
                    DocumentName} }

\* the discriminants TokenHighlighter::new may be given
Targets == {"EnvironmentBegin", "DollarSign"}

Highlighters == {"Math", "DisplayMath", "InlineMath", "Preamble", "Document", "Token"}

IdleHighlight ==
    /\ hlIn = <<>>
    /\ hlEnded = FALSE
    /\ math = NewMathHighlighter
    /\ display_math = NewMathHighlighter
    /\ inline_math = NewMathHighlighter
    /\ preamble = [in_preamble |-> FALSE]
    /\ document = [in_document |-> FALSE]
    /\ token_highlighter = [token |-> "None"]
    /\ hlOut = [h \in Highlighters |-> <<>>]
    /\ sink = [h \in Highlighters |-> <<>>]

\* one highlighter of each kind is created, each over its own copy of one token
\* stream
InitHighlight ==
    /\ hlIn = <<>>
    /\ hlEnded = FALSE
    /\ math = NewMathHighlighter
    /\ display_math = NewMathHighlighter
    /\ inline_math = NewMathHighlighter
    /\ preamble = [in_preamble |-> FALSE]
    /\ document = [in_document |-> FALSE]
    /\ token_highlighter \in { [token |-> d] : d \in Targets }
    /\ hlOut = [h \in Highlighters |-> <<>>]
    /\ sink = [h \in Highlighters |-> <<>>]

\* next() of every highlighter, upstream yielding Some(item); a highlighter that
\* has panicked is not called again
HighlightItem(item) ==
    LET m == IF math.panicked THEN [state |-> math, out |-> <<>>]
             ELSE MathHighlighterNext(math, item)
        d == IF display_math.panicked THEN [state |-> display_math, out |-> <<>>]
             ELSE DisplayMathHighlighterNext(display_math, item)
        i == IF inline_math.panicked THEN [state |-> inline_math, out |-> <<>>]
             ELSE InlineMathHighlighterNext(inline_math, item)
        p == PreambleHighlighterNext(preamble, item)
        c == DocumentHighlighterNext(document, item)
        t == TokenHighlighterNext(token_highlighter, item)
    IN  /\ hlIn' = Append(hlIn, item)
        /\ math' = m.state
        /\ display_math' = d.state
        /\ inline_math' = i.state
        /\ preamble' = p.state
        /\ document' = c.state
        /\ token_highlighter' = t.state
        /\ hlOut' = [hlOut EXCEPT !["Math"] = @ \o m.out,
                                  !["DisplayMath"] = @ \o d.out,
                                  !["InlineMath"] = @ \o i.out,
                                  !["Preamble"] = @ \o p.out,
                                  !["Document"] = @ \o c.out,
                                  !["Token"] = @ \o t.out]

\* the highlighters polled over an arbitrary token stream
HighlightNext ==
    /\ ~hlEnded
    /\ Len(hlIn) < MaxTokens
    /\ \E token \in HLTokens : HighlightItem(<<token, <<Len(hlIn), Len(hlIn) + 1>>>>)
    /\ UNCHANGED <<hlEnded, sink, source, lexVars, depsVars, fmtVars>>

\* next() of every highlighter, upstream yielding None: each returns None and
\* leaves its fields alone
HighlightEnd ==
    /\ ~hlEnded
    /\ hlEnded' = TRUE
    /\ UNCHANGED <<hlIn, math, display_math, inline_math, preamble, document,
                   token_highlighter, hlOut, sink, source, lexVars, depsVars, fmtVars>>

(***************************************************************************)
(* The auto-indent formatter and the renderer (latex/format.rs).           *)
(***************************************************************************)
\* Option::None of an iterator's item
NoneItem == <<Tok("None"), <<0, 0>>>>

\* target_indentation_level is a u8
U8Modulus == 256

NewFormatterIndented(tokens) ==
    [iter |-> tokens,
     inside_document |-> FALSE,
     target_indentation_level |-> 0,
     is_indented |-> TRUE,
     indent_chars |-> <<" ", " ">>,
     panicked |-> FALSE]

\* AutoIndentFormatter::new(iter), also standing for a bare token iterator
NewFormatter(tokens) ==
    [iter |-> tokens,
     inside_document |-> FALSE,
     target_indentation_level |-> 0,
     is_indented |-> FALSE,
     indent_chars |-> <<" ", " ">>,
     panicked |-> FALSE]

\* self.iter.peek()
Peek(f) == IF f.iter = <<>> THEN NoneItem ELSE Head(f.iter)

\* self.iter.next(): the iterator once the peeked item is taken
Advance(f) == IF f.iter = <<>> THEN f ELSE [f EXCEPT !.iter = Tail(f.iter)]

\* self.target_indentation_level -= 1
DecrementLevel(f) ==
    IF f.target_indentation_level = 0
    THEN IF overflow_checks
         THEN [f EXCEPT !.panicked = TRUE]
         ELSE [f EXCEPT !.target_indentation_level = U8Modulus - 1]
    ELSE [f EXCEPT !.target_indentation_level = f.target_indentation_level - 1]

\* self.target_indentation_level += 1
IncrementLevel(f) ==
    IF f.target_indentation_level = U8Modulus - 1
    THEN IF overflow_checks
         THEN [f EXCEPT !.panicked = TRUE]
         ELSE [f EXCEPT !.target_indentation_level = 0]
    ELSE [f EXCEPT !.target_indentation_level = f.target_indentation_level + 1]

PreIndentUnguarded(f) ==
    LET token == Peek(f)[1]
    IN  CASE token = TokP("EnvironmentBegin", DocumentName) ->
               [f EXCEPT !.inside_document = TRUE]
          [] token.kind = "EnvironmentEnd" ->
               IF f.inside_document THEN DecrementLevel(f) ELSE f
          [] OTHER -> f

PreIndentLeavesDocument(f) ==
    LET token == Peek(f)[1]
    IN  CASE token = TokP("EnvironmentBegin", DocumentName) ->
               [f EXCEPT !.inside_document = TRUE]
          [] token.kind = "EnvironmentEnd" ->
               LET g == IF ~f.is_indented /\ f.inside_document THEN DecrementLevel(f) ELSE f
               IN  IF token.payload = DocumentName
                   THEN [g EXCEPT !.inside_document = FALSE]
                   ELSE g
          [] OTHER -> f

PreIndentGuardInverted(f) ==
    LET token == Peek(f)[1]
    IN  CASE token = TokP("EnvironmentBegin", DocumentName) ->
               [f EXCEPT !.inside_document = TRUE]
          [] token.kind = "EnvironmentEnd" ->
               IF f.is_indented /\ f.inside_document THEN DecrementLevel(f) ELSE f
          [] OTHER -> f

\* "Pre indent matching"
PreIndent(f) ==
    LET token == Peek(f)[1]
    IN  CASE token = TokP("EnvironmentBegin", DocumentName) ->
               [f EXCEPT !.inside_document = TRUE]
          [] token.kind = "EnvironmentEnd" ->
               IF ~f.is_indented /\ f.inside_document THEN DecrementLevel(f) ELSE f
          [] OTHER -> f

PostIndentOutsideDocument(f) ==
    LET token == Peek(f)[1]
    IN  CASE token.kind = "EnvironmentBegin" -> IncrementLevel(f)
          [] token.kind = "Newline" -> [f EXCEPT !.is_indented = FALSE]
          [] OTHER -> f

PostIndentKeepsIndented(f) ==
    LET token == Peek(f)[1]
    IN  CASE token.kind = "EnvironmentBegin" ->
               IF f.inside_document THEN IncrementLevel(f) ELSE f
          [] OTHER -> f

\* "Post indent matching"
PostIndent(f) ==
    LET token == Peek(f)[1]
    IN  CASE token.kind = "EnvironmentBegin" ->
               IF f.inside_document THEN IncrementLevel(f) ELSE f
          [] token.kind = "Newline" -> [f EXCEPT !.is_indented = FALSE]
          [] OTHER -> f

\* level copies of indent_chars
IndentationOneUnit(level, indent_chars) == IF level = 0 THEN <<>> ELSE indent_chars

Indentation(level, indent_chars) ==
    [i \in 1..(level * Len(indent_chars)) |->
        indent_chars[((i - 1) % Len(indent_chars)) + 1]]

\* AutoIndentFormatter::next(): the formatter after the call and the item returned
RECURSIVE AutoIndentFormatterNext(_)
AutoIndentFormatterNext(f) ==
    LET g == PreIndent(f)
    IN  IF g.panicked
        THEN [fmt |-> g, item |-> NoneItem]
        ELSE IF ~g.is_indented
        THEN IF Peek(g)[1].kind = "TabsOrSpaces"
             THEN AutoIndentFormatterNext(Advance(g))
             ELSE [fmt |-> [g EXCEPT !.is_indented = TRUE],
                   item |-> <<TokP("OwnedString",
                                   Indentation(g.target_indentation_level, g.indent_chars)),
                              <<0, 1>>>>]
        ELSE LET h == PostIndent(g)
             IN  IF h.panicked
                 THEN [fmt |-> h, item |-> NoneItem]
                 ELSE [fmt |-> Advance(h), item |-> Peek(h)]

\* next() of the bare iterator Token::lexer(source).spanned()
SpannedNext(f) == [fmt |-> Advance(f), item |-> Peek(f)]

\* next() of the comment-dropping formatter cli/format.rs calls DummyFormatter: the
\* first item of the iterator that is not a Comment token, the items before it
\* being dropped
DummyFormatterNext(f) ==
    LET n == Len(f.iter)
        others == {k \in 1..n : f.iter[k][1].kind # "Comment"}
    IN  IF others = {}
        THEN [fmt |-> [f EXCEPT !.iter = <<>>], item |-> NoneItem]
        ELSE LET k == CHOOSE i \in others : \A j \in others : i <= j
             IN  [fmt |-> [f EXCEPT !.iter = SubSeq(f.iter, k + 1, n)],
                  item |-> f.iter[k]]

\* the bytes write_formatted writes for one item
WrittenBytesDroppingOwned(src, item) ==
    IF item[1].kind = "OwnedString" THEN <<>> ELSE Slice(src, item[2])

WrittenBytes(src, item) ==
    IF item[1].kind = "OwnedString" THEN item[1].payload ELSE Slice(src, item[2])

FmtFrags ==
    { <<"\\", "b", "e", "g", "i", "n", "{", "d", "o", "c", "u", "m", "e", "n", "t", "}">>,
      <<"\\", "e", "n", "d", "{", "a", "}">>,
      <<"\n", "\\", "e", "n", "d", "{", "a", "}">>,
      <<"\n">>, <<" ">>, <<"a">>, <<"\\">> }

IdleFormat ==
    /\ overflow_checks = TRUE
    /\ formatter = "None"
    /\ fmt = NewFormatter(<<>>)
    /\ fmtOut = <<>>
    /\ fmtLevels = <<>>
    /\ buffer = <<>>
    /\ pc = "idle"
    /\ pass = 0
    /\ original = <<>>

\* main of the format pipeline: iter = Token::lexer(source).spanned(), then
\* AutoIndentFormatter::new(iter).write_formatted(source, &mut buf), or
\* iter.write_formatted(source, &mut buf)
InitFormat ==
    /\ source \in SourcesOf(FmtFrags, MaxFmtFrags)
    /\ IdleLexer
    /\ IdleDeps
    /\ IdleHighlight
    /\ overflow_checks \in BOOLEAN
    /\ formatter \in {"AutoIndent", "Spanned"}
    /\ fmt = NewFormatter(Tokenize(source, 0))
    /\ fmtOut = <<>>
    /\ fmtLevels = <<>>
    /\ buffer = <<>>
    /\ pc = "writing"
    /\ pass = 1
    /\ original = source

\* one turn of the loop of write_formatted: the iterator's next(), then write_all
WriteFormatted ==
    /\ pc = "writing"
    /\ LET r == CASE formatter = "AutoIndent" -> AutoIndentFormatterNext(fmt)
                  [] formatter = "Dummy" -> DummyFormatterNext(fmt)
                  [] OTHER -> SpannedNext(fmt)
       IN  /\ fmt' = r.fmt
           /\ IF r.fmt.panicked
              THEN /\ pc' = "panicked"
                   /\ UNCHANGED <<fmtOut, fmtLevels, buffer>>
              ELSE IF r.item = NoneItem
              THEN /\ pc' = "done"
                   /\ UNCHANGED <<fmtOut, fmtLevels, buffer>>
              ELSE /\ pc' = "writing"
                   /\ fmtOut' = Append(fmtOut, r.item)
                   /\ fmtLevels' = Append(fmtLevels, r.fmt.target_indentation_level)
                   /\ buffer' = buffer \o WrittenBytes(source, r.item)
    /\ UNCHANGED <<source, lexVars, depsVars, overflow_checks, formatter, pass, original, hlVars>>

\* the formatter is run again, on the text it has just written
Reformat ==
    /\ pc = "done"
    /\ pass = 1
    /\ formatter = "AutoIndent"
    /\ source' = buffer
    /\ fmt' = NewFormatter(Tokenize(buffer, 0))
    /\ fmtOut' = <<>>
    /\ fmtLevels' = <<>>
    /\ buffer' = <<>>
    /\ pc' = "writing"
    /\ pass' = 2
    /\ UNCHANGED <<lexVars, depsVars, overflow_checks, formatter, original, hlVars>>

\* lines and pieces of lines of documents with environments
IndentFrags ==
    { <<"\\", "b", "e", "g", "i", "n", "{", "d", "o", "c", "u", "m", "e", "n", "t", "}", "\n">>,
      <<"\\", "b", "e", "g", "i", "n", "{", "a", "}", "\n">>,
      <<"\\", "e", "n", "d", "{", "a", "}", "\n">>,
      <<"\\", "e", "n", "d", "{", "d", "o", "c", "u", "m", "e", "n", "t", "}", "\n">>,
      <<"a">>, <<" ">>, <<"\\", "\n">> }

\* the source of tests::test_document_auto_indent
TestDocument ==
    <<
      "\n", "\\", "d", "o", "c", "u", "m", "e", "n", "t", "c", "l", "a", "s", "s", "{",
      "a", "r", "t", "i", "c", "l", "e", "}", "\n", " ", " ", "\\", "u", "s", "e", "p",
      "a", "c", "k", "a", "g", "e", "{", "t", "i", "k", "z", "}", " ", "%", " ", "I",
      "n", "d", "e", "n", "t", " ", "i", "n", " ", "p", "r", "e", "a", "m", "b", "l",
      "e", "\n", "\n", "\\", "b", "e", "g", "i", "n", "{", "d", "o", "c", "u", "m",
      "e", "n", "t", "}", "\n", " ", " ", "G", "o", "o", "d", " ", "i", "n", "d", "e",
      "n", "t", "a", "t", "i", "o", "n", "\n", " ", " ", " ", " ", "\\", "b", "e", "g",
      "i", "n", "{", "t", "i", "k", "z", "p", "i", "c", "t", "u", "r", "e", "}", "[",
      "s", "c", "a", "l", "e", "=", "1", ".", "5", "]", " ", "%", " ", "W", "r", "o",
      "n", "g", " ", "i", "n", "d", "e", "n", "t", "a", "t", "i", "o", "n", "\n", "\\",
      "d", "r", "a", "w", "[", "t", "h", "i", "c", "k", ",", "f", "i", "l", "l", "=",
      "g", "r", "a", "y", "!", "6", "0", "]", " ", "(", "0", ",", "0", ")", " ", "r",
      "e", "c", "t", "a", "n", "g", "l", "e", " ", "(", "1", ",", "1", ")", ";", " ",
      "%", " ", "A", "l", "s", "o", " ", "w", "r", "o", "n", "g", "\n", " ", " ", " ",
      " ", "\\", "e", "n", "d", "{", "t", "i", "k", "z", "p", "i", "c", "t", "u", "r",
      "e", "}", "\n", "I", "t", " ", "s", "h", "o", "u", "l", "d", " ", "g", "o", " ",
      "b", "a", "c", "k", " ", "t", "o", " ", "a", "n", " ", "i", "n", "d", "e", "n",
      "t", "a", "t", "i", "o", "n", " ", "l", "e", "v", "e", "l", " ", "o", "f", " ",
      "o", "n", "e", "\n", "\\", "e", "n", "d", "{", "d", "o", "c", "u", "m", "e", "n",
      "t", "}", "\n", "\n", " ", " ", " ", " ", "%", " ", "I", "n", "d", "e", "n", "t",
      "a", "t", "i", "o", "n", " ", "a", "f", "t", "e", "r", " ", "d", "o", "c", "u",
      "m", "e", "n", "t", "\n"
    >>

IndentSources == SourcesOf(IndentFrags, MaxIndentFrags) \cup {TestDocument}

\* AutoIndentFormatter::new(Token::lexer(source).spanned())
\*     .write_formatted(source, &mut buf)
InitIndent ==
    /\ source \in IndentSources
    /\ IdleLexer
    /\ IdleDeps
    /\ IdleHighlight
    /\ overflow_checks \in BOOLEAN
    /\ formatter = "AutoIndent"
    /\ fmt = NewFormatter(Tokenize(source, 0))
    /\ fmtOut = <<>>
    /\ fmtLevels = <<>>
    /\ buffer = <<>>
    /\ pc = "writing"
    /\ pass = 1
    /\ original = source

(***************************************************************************)
(* The colorizing renderer (Highlighter::write_colorized) over a           *)
(* highlighter over a token iterator.                                      *)
(***************************************************************************)
\* buffer.reset()
Reset == [op |-> "reset", bytes |-> <<>>]

\* buffer.set_color(highlight_color)
SetColor == [op |-> "set_color", bytes |-> <<>>]

\* buffer.write_all(bytes)
WriteAll(bytes) == [op |-> "write_all", bytes |-> bytes]

\* source[span] panics unless the span lies in the source, on character boundaries
SliceInBounds(src, span) ==
    /\ span[1] <= span[2]
    /\ span[2] <= Len(src)
    /\ IsCharBoundary(src, span[1])
    /\ IsCharBoundary(src, span[2])

\* the body of the loop of write_colorized: the calls made on the buffer for one
\* item (is_highlighted, (_, span))
ColorizedCalls(src, out) ==
    IF out[1]
    THEN <<SetColor, WriteAll(Slice(src, out[2][2])), Reset>>
    ELSE <<WriteAll(Slice(src, out[2][2]))>>

\* the calls made before source[span] panics
ColorizedCallsBeforePanic(out) == IF out[1] THEN <<SetColor>> ELSE <<>>

ColorizeFrags ==
    { <<"a">>, <<" ">>, <<"$">>,
      <<"\\", "b", "e", "g", "i", "n", "{", "d", "o", "c", "u", "m", "e", "n", "t", "}", "\n">> }

\* "a $x$ b"
ToggleExample == <<"a", " ", "$", "x", "$", " ", "b">>

ColorizeSources == SourcesOf(ColorizeFrags, MaxColorizeFrags) \cup {ToggleExample}

\* a highlighter of each kind is created over Token::lexer(source).spanned(), or
\* over an AutoIndentFormatter over it, and write_colorized(source, buffer, color)
\* has called buffer.reset()
InitColorize ==
    /\ source \in ColorizeSources
    /\ IdleLexer
    /\ IdleDeps
    /\ overflow_checks \in BOOLEAN
    /\ formatter \in {"AutoIndent", "Spanned"}
    /\ fmt = NewFormatter(Tokenize(source, 0))
    /\ fmtOut = <<>>
    /\ fmtLevels = <<>>
    /\ buffer = <<>>
    /\ pc = "colorizing"
    /\ pass = 1
    /\ original = source
    /\ hlIn = <<>>
    /\ hlEnded = FALSE
    /\ math = NewMathHighlighter
    /\ display_math = NewMathHighlighter
    /\ inline_math = NewMathHighlighter
    /\ preamble = [in_preamble |-> FALSE]
    /\ document = [in_document |-> FALSE]
    /\ token_highlighter \in { [token |-> d] : d \in Targets }
    /\ hlOut = [h \in Highlighters |-> <<>>]
    /\ sink = [h \in Highlighters |-> <<Reset>>]

\* one turn of the loop of write_colorized: next() of the highlighter, which
\* polls the iterator under it, then the calls on the buffer
WriteColorized ==
    /\ pc = "colorizing"
    /\ LET r == IF formatter = "AutoIndent"
                THEN AutoIndentFormatterNext(fmt)
                ELSE SpannedNext(fmt)
       IN  /\ fmt' = r.fmt
           /\ IF r.fmt.panicked
              THEN /\ pc' = "panicked"
                   /\ UNCHANGED hlVars
              ELSE IF r.item = NoneItem
              THEN /\ pc' = "done"
                   /\ hlEnded' = TRUE
                   /\ UNCHANGED <<hlIn, math, display_math, inline_math, preamble,
                                  document, token_highlighter, hlOut, sink>>
              ELSE /\ HighlightItem(r.item)
                   /\ UNCHANGED hlEnded
                   /\ IF SliceInBounds(source, r.item[2])
                      THEN /\ pc' = "colorizing"
                           /\ sink' = [h \in Highlighters |->
                                         sink[h] \o ColorizedCalls(source,
                                                      hlOut'[h][Len(hlOut'[h])])]
                      ELSE /\ pc' = "panicked"
                           /\ sink' = [h \in Highlighters |->
                                         sink[h] \o ColorizedCallsBeforePanic(
                                                      hlOut'[h][Len(hlOut'[h])])]
    /\ UNCHANGED <<source, lexVars, depsVars, overflow_checks, formatter, fmtOut, fmtLevels,
                   buffer, pass, original>>

\* pieces of lines with comments
DummyFrags == { <<"%">>, <<"a">>, <<" ">>, <<"\n">>, <<"\\">> }

DummySources == SourcesOf(DummyFrags, MaxDummyFrags)

\* the format command run on a bare token stream instead of a DummyFormatter
InitDummyBareIterator ==
    /\ source \in DummySources
    /\ IdleLexer
    /\ IdleDeps
    /\ IdleHighlight
    /\ overflow_checks \in BOOLEAN
    /\ formatter = "Spanned"
    /\ fmt = NewFormatter(Tokenize(source, 0))
    /\ fmtOut = <<>>
    /\ fmtLevels = <<>>
    /\ buffer = <<>>
    /\ pc = "writing"
    /\ pass = 1
    /\ original = source

\* FormatCommand::execute, for one source: iter = Token::lexer(source).spanned(),
\* then DummyFormatter::new(iter).write_formatted(source, &mut stdout)
InitDummy ==
    /\ source \in DummySources
    /\ IdleLexer
    /\ IdleDeps
    /\ IdleHighlight
    /\ overflow_checks \in BOOLEAN
    /\ formatter = "Dummy"
    /\ fmt = NewFormatter(Tokenize(source, 0))
    /\ fmtOut = <<>>
    /\ fmtLevels = <<>>
    /\ buffer = <<>>
    /\ pc = "writing"
    /\ pass = 1
    /\ original = source

(***************************************************************************)
(* Specifications.                                                         *)
(***************************************************************************)
InitLexer ==
    /\ source \in SourcesOf(LexFrags, MaxLexFrags)
    /\ IdleLexer
    /\ IdleDeps
    /\ IdleFormat
    /\ IdleHighlight

NextLexer == LexNext

SpecLexer == InitLexer /\ [][NextLexer]_vars

InitScan ==
    /\ source \in SourcesOf(ScanFrags, MaxScanFrags)
    /\ IdleLexer
    /\ IdleDeps
    /\ IdleFormat
    /\ IdleHighlight

NextScan == LexNext

SpecScan == InitScan /\ [][NextScan]_vars

NextFormat == WriteFormatted \/ Reformat

SpecFormat == InitFormat /\ [][NextFormat]_vars

InitHighlighters ==
    /\ source = <<>>
    /\ IdleLexer
    /\ IdleDeps
    /\ IdleFormat
    /\ InitHighlight

NextHighlighters == HighlightNext \/ HighlightEnd

SpecHighlighters == InitHighlighters /\ [][NextHighlighters]_vars

NextIndent == WriteFormatted

SpecIndent == InitIndent /\ [][NextIndent]_vars

NextDummy == WriteFormatted

SpecDummy == InitDummy /\ [][NextDummy]_vars

NextColorize == WriteColorized

SpecColorize == InitColorize /\ [][NextColorize]_vars

\* Dependency::new(filename, main_dir) on a .tex file with the given contents
InitDeps ==
    /\ source \in SourcesOf(DepsFrags, MaxDepsFrags)
    /\ IdleLexer
    /\ IdleDeps
    /\ IdleFormat
    /\ IdleHighlight

NextDeps == DependencyNew

SpecDeps == InitDeps /\ [][NextDeps]_vars

(***************************************************************************)
(* Claims about the tokenizer.                                             *)
(***************************************************************************)
SpanOf(item) == item[2]

\* C1: the spans yielded by Token::lexer(source).spanned() partition the source:
\* the first starts at 0, each next one starts where the previous one ends, none is
\* empty, each is a valid slice (it lies on character boundaries), the slices
\* yielded so far concatenate to the part of the source already scanned, and once
\* the lexer has ended the last span ends at len(source), so that the slices
\* concatenate to the whole source.
C1_SpansPartitionSource ==
    /\ \A i \in 1..Len(lexOut) :
          /\ SpanOf(lexOut[i])[1] < SpanOf(lexOut[i])[2]
          /\ SpanOf(lexOut[i])[2] <= Len(source)
          /\ IsCharBoundary(source, SpanOf(lexOut[i])[1])
          /\ IsCharBoundary(source, SpanOf(lexOut[i])[2])
          /\ SpanOf(lexOut[i])[1] = IF i = 1 THEN 0 ELSE SpanOf(lexOut[i - 1])[2]
    /\ Concat([i \in 1..Len(lexOut) |-> Slice(source, SpanOf(lexOut[i]))])
          = SubSeq(source, 1, token_end)
    /\ lexEnded =>
          /\ token_end = Len(source)
          /\ Concat([i \in 1..Len(lexOut) |-> Slice(source, SpanOf(lexOut[i]))]) = source

\* a source with a two-byte character has been tokenized to the end in three or
\* more tokens, one of them the two-byte Other
C1_Witness ==
    /\ lexEnded
    /\ Len(lexOut) >= 3
    /\ \E i \in 1..Len(lexOut) :
          /\ lexOut[i][1].kind = "Other"
          /\ SpanOf(lexOut[i])[2] - SpanOf(lexOut[i])[1] = 2

TokenKinds ==
    { l[2] : l \in Literals } \cup
    {"CommandName", "Comment", "EnvironmentBegin", "EnvironmentEnd", "InvalidCommand",
     "Number", "TabsOrSpaces", "Word", "Other"}

\* C8: tokenizing terminates and never fails: every token yielded is a variant of
\* the Token enum (Other when no rule matches) and consumed at least one byte, so
\* the number of tokens yielded never exceeds the number of bytes scanned, which
\* never exceeds len(source); the end of the stream is reported exactly when the
\* whole source is scanned, hence after at most len(source) tokens.
C8_TokenizingTerminates ==
    /\ Len(lexOut) <= token_end
    /\ token_end <= Len(source)
    /\ \A i \in 1..Len(lexOut) :
          /\ lexOut[i][1].kind \in TokenKinds
          /\ SpanOf(lexOut[i])[2] - SpanOf(lexOut[i])[1] >= 1
    /\ lexEnded => token_end = Len(source) /\ Len(lexOut) <= Len(source)

\* the end of a source made only of unmatched characters has been reported after
\* as many Other tokens as the source has characters
C8_Witness ==
    /\ lexEnded
    /\ Len(lexOut) >= 2
    /\ \A i \in 1..Len(lexOut) : lexOut[i][1].kind = "Other"

(***************************************************************************)
(* Claims about the auto-indent formatter and the renderer.                *)
(***************************************************************************)
IsOwned(item) == item[1].kind = "OwnedString"

\* the item that precedes item k of the formatter's output ends a line of tokens
AfterNewlineToken(k) == k = 1 \/ fmtOut[k - 1][1].kind = "Newline"

\* the bytes of item k of the formatter's output as the claims expect them rendered
RenderedItem(k) ==
    IF IsOwned(fmtOut[k])
    THEN fmtOut[k][1].payload
    ELSE SubSeq(source, fmtOut[k][2][1] + 1, fmtOut[k][2][2])

\* item k of the formatter's output is the first one written on a line of the
\* rendered text
StartsRenderedLine(k) ==
    \/ k = 1
    \/ /\ k > 1
       /\ RenderedItem(k - 1) # <<>>
       /\ RenderedItem(k - 1)[Len(RenderedItem(k - 1))] = "\n"

\* the length of the run of blanks that text begins with
LeadingBlanks(text) ==
    LET S == {i \in 1..Len(text) : text[i] \notin Blanks}
    IN  IF S = {} THEN Len(text) ELSE (CHOOSE i \in S : \A j \in S : i <= j) - 1

\* a sequence of n spaces
Spaces(n) == [i \in 1..n |-> " "]

\* the text rendered from item k of the formatter's output on
RenderedFrom(k) == Concat([j \in 1..(Len(fmtOut) - k + 1) |-> RenderedItem(k + j - 1)])

\* C5 (as stated): every line of the rendered text begins with exactly
\* 2 x target_level spaces, the blanks that originally began it being consumed:
\* the run of blanks written from the first item of a rendered line on is
\* 2 x target_level long, target_level being the counter's value as that item is
\* emitted.
C5_EveryRenderedLineIndented ==
    formatter = "AutoIndent" =>
        \A k \in 1..Len(fmtOut) :
            StartsRenderedLine(k) =>
                LeadingBlanks(RenderedFrom(k)) = 2 * fmtLevels[k]

\* C5 (amended): in the formatter's output an OwnedString token stands first and
\* directly after every Newline token, and nowhere else; its text is target_level
\* copies of two spaces, target_level being the counter's value as the token is
\* emitted; the tabs/spaces that began the line are not emitted, so the token that
\* follows does not start with a blank; the stream never ends right after a
\* Newline token.
C5_EveryTokenLineIndented ==
    formatter = "AutoIndent" =>
        /\ \A k \in 1..Len(fmtOut) :
              /\ IsOwned(fmtOut[k]) <=> AfterNewlineToken(k)
              /\ IsOwned(fmtOut[k]) => fmtOut[k][1].payload = Spaces(2 * fmtLevels[k])
              /\ (k > 1 /\ IsOwned(fmtOut[k - 1])) =>
                    /\ fmtOut[k][1].kind # "TabsOrSpaces"
                    /\ RenderedItem(k)[1] \notin Blanks
        /\ pc = "done" =>
              /\ Len(fmtOut) >= 1
              /\ fmtOut[Len(fmtOut)][1].kind # "Newline"
        /\ buffer = Concat([k \in 1..Len(fmtOut) |-> RenderedItem(k)])

\* a second line, whose blank has been consumed, has been given an indentation of
\* one level, and its first token has been emitted
C5_Witness ==
    /\ formatter = "AutoIndent"
    /\ pass = 1
    /\ \E k \in 3..Len(fmtOut) :
          /\ fmtOut[k - 2][1].kind = "Newline"
          /\ fmtOut[k - 1][1] = TokP("OwnedString", <<" ", " ">>)
          /\ fmtOut[k][2][1] > fmtOut[k - 2][2][2]

\* C6 (as stated): auto-indent is idempotent on every source text: formatting a
\* text completes, and formatting its output again completes and writes that
\* output unchanged.
C6_AutoIndentIdempotent ==
    formatter = "AutoIndent" =>
        /\ pc # "panicked"
        /\ (pass = 2 /\ pc = "done") => buffer = source

\* whenever formatting a text completes, formatting its output again completes
\* and writes that output unchanged
IdempotentWhenCompleted ==
    formatter = "AutoIndent" =>
        /\ pass = 2 => pc # "panicked"
        /\ (pass = 2 /\ pc = "done") => buffer = source

\* C7: write_formatted writes, for each item of the stream in order, the owned
\* string of an OwnedString token and otherwise the bytes of the source at the
\* item's span, and nothing else; so the unmodified tokenizer output of a source is
\* rendered as that source.
C7_WriteFormattedRendersItems ==
    /\ buffer = Concat([k \in 1..Len(fmtOut) |-> RenderedItem(k)])
    /\ (formatter = "Spanned" /\ pc = "done") => buffer = source

\* a stream that holds a non-empty OwnedString token (whose placeholder span 0..1
\* denotes other bytes) and tokens of the source has been written to its end
C7_Witness ==
    /\ pc = "done"
    /\ \E k \in 1..Len(fmtOut) :
          /\ IsOwned(fmtOut[k])
          /\ fmtOut[k][1].payload # <<>>
          /\ fmtOut[k][1].payload # SubSeq(source, 1, 1)
    /\ \E k \in 1..Len(fmtOut) : ~IsOwned(fmtOut[k])

(***************************************************************************)
(* Claims about the highlighters.                                          *)
(***************************************************************************)
Flag(h, k) == hlOut[h][k][1]

LastIn == hlIn'[Len(hlIn')]

LastOut(h) == hlOut'[h][Len(hlOut'[h])]

Fed == Len(hlIn') = Len(hlIn) + 1

\* C2: every highlighter is a pure annotation pass: after N items of input each
\* of the six highlighters has yielded exactly N items, and the k-th item yielded
\* carries the k-th token and span of the input unchanged.
C2_HighlightersOnlyAnnotate ==
    \A h \in Highlighters :
        /\ Len(hlOut[h]) = Len(hlIn)
        /\ \A k \in 1..Len(hlOut[h]) : hlOut[h][k][2] = hlIn[k]

\* every highlighter has annotated three items, the Preamble highlighter one of
\* them with true and another with false, the Math highlighter from inside and
\* from outside math mode
C2_Witness ==
    /\ Len(hlIn) = MaxTokens
    /\ \A h \in Highlighters : Len(hlOut[h]) = MaxTokens
    /\ Flag("Preamble", 1) /\ ~Flag("Preamble", 3)
    /\ ~Flag("Math", 1) /\ Flag("Math", 2) /\ Flag("Math", 3)
    /\ hlEnded

\* the openers of the Math highlighter and the closer each records
MathOpeners ==
    { Tok("DisplayMathOpen"), Tok("DollarSign"), Tok("DoubleDollarSign"),
      Tok("InlineMathOpen") }
    \cup { TokP("EnvironmentBegin", n) :
             n \in {EquationName, EquationStarName, AlignName, AlignStarName} }

RecordedCloser(token) ==
    CASE token = Tok("DisplayMathOpen") -> Tok("DisplayMathClose")
      [] token = Tok("InlineMathOpen") -> Tok("InlineMathClose")
      [] token.kind = "EnvironmentBegin" -> TokP("EnvironmentEnd", token.payload)
      [] OTHER -> token

\* C3: a step of the Math highlighter taken outside math mode marks the token
\* highlighted and enters math mode if and only if the token is DisplayMathOpen,
\* DollarSign, DoubleDollarSign, InlineMathOpen or EnvironmentBegin of equation,
\* equation*, align or align*, and then records the matching closer; on any other
\* token it marks the token not highlighted and stays outside.
C3_OutsideStep ==
    [][ (Fed /\ ~math.in_math_mode) =>
           IF LastIn[1] \in MathOpeners
           THEN /\ LastOut("Math") = <<TRUE, LastIn>>
                /\ math'.in_math_mode
                /\ math'.closing_token = RecordedCloser(LastIn[1])
           ELSE /\ LastOut("Math") = <<FALSE, LastIn>>
                /\ ~math'.in_math_mode
                /\ math'.closing_token = NoneToken ]_vars

\* outside math mode the Math highlighter has passed \begin{figure} and a closer
\* unhighlighted and has then entered math mode on \begin{align*}
C3_Witness ==
    /\ Len(hlIn) = 3
    /\ hlIn[1][1] = TokP("EnvironmentBegin", FigureName)
    /\ hlIn[2][1] = Tok("InlineMathClose")
    /\ hlIn[3][1] = TokP("EnvironmentBegin", AlignStarName)
    /\ ~Flag("Math", 1) /\ ~Flag("Math", 2) /\ Flag("Math", 3)
    /\ math.in_math_mode
    /\ math.closing_token = TokP("EnvironmentEnd", AlignStarName)

\* C4: a step of the Math highlighter taken inside math mode marks the token
\* highlighted; it leaves math mode if and only if the token equals the recorded
\* closer, that closing token being marked highlighted too, and otherwise keeps
\* the recorded closer.
C4_InsideStep ==
    [][ (Fed /\ math.in_math_mode) =>
           /\ LastOut("Math") = <<TRUE, LastIn>>
           /\ math'.in_math_mode <=> LastIn[1] # math.closing_token
           /\ math'.in_math_mode => math'.closing_token = math.closing_token ]_vars

\* math mode was entered, kept on a token that is another opener's closer, and
\* left on the recorded closer, all three tokens highlighted
C4_Witness ==
    /\ Len(hlIn) = 3
    /\ hlIn[1][1] = Tok("DisplayMathOpen")
    /\ hlIn[2][1] = Tok("InlineMathClose")
    /\ hlIn[3][1] = Tok("DisplayMathClose")
    /\ Flag("Math", 1) /\ Flag("Math", 2) /\ Flag("Math", 3)
    /\ ~math.in_math_mode

MathKinds == {"Math", "DisplayMath", "InlineMath"}

FieldsOf(h) ==
    CASE h = "Math" -> math
      [] h = "DisplayMath" -> display_math
      [] h = "InlineMath" -> inline_math

OpenersOf(h) ==
    CASE h = "Math" -> MathOpeners
      [] h = "DisplayMath" -> MathOpeners \ {Tok("DollarSign"), Tok("InlineMathOpen")}
      [] h = "InlineMath" -> {Tok("DollarSign"), Tok("InlineMathOpen")}

\* C9: no highlighter fails on any token sequence: every highlighter has yielded
\* as many items as it was given, none has panicked, and for each math
\* highlighter a token met outside math mode that is not one of its openers (a
\* closer, say) is not highlighted, while an opener met outside math mode and
\* never followed by its closer has every later token highlighted and leaves the
\* highlighter in math mode with that closer recorded, at end of stream too.
C9_HighlightersNeverFail ==
    /\ \A h \in Highlighters : Len(hlOut[h]) = Len(hlIn)
    /\ \A h \in MathKinds :
          /\ ~FieldsOf(h).panicked
          /\ \A k \in 1..Len(hlIn) :
                (\A j \in 1..(k - 1) : ~Flag(h, j)) =>
                   IF hlIn[k][1] \in OpenersOf(h)
                   THEN (\A j \in (k + 1)..Len(hlIn) :
                            hlIn[j][1] # RecordedCloser(hlIn[k][1])) =>
                           /\ \A j \in k..Len(hlIn) : Flag(h, j)
                           /\ FieldsOf(h).in_math_mode
                           /\ FieldsOf(h).closing_token = RecordedCloser(hlIn[k][1])
                   ELSE ~Flag(h, k)

\* the stream \] $ word has ended: the closer met outside math mode was not
\* highlighted, the unclosed opener and the word after it were, and the Math
\* highlighter is still in math mode
C9_Witness ==
    /\ hlEnded
    /\ Len(hlIn) = 3
    /\ hlIn[1][1] = Tok("DisplayMathClose")
    /\ hlIn[2][1] = Tok("DollarSign")
    /\ hlIn[3][1] = Tok("Word")
    /\ ~Flag("Math", 1) /\ Flag("Math", 2) /\ Flag("Math", 3)
    /\ math.in_math_mode
    /\ math.closing_token = Tok("DollarSign")

\* C10: the Preamble highlighter marks a token highlighted if and only if the
\* most recent DocumentClass or \begin{document} token at or before it is a
\* DocumentClass.
C10_PreambleMarks ==
    /\ Len(hlOut["Preamble"]) = Len(hlIn)
    /\ \A k \in 1..Len(hlIn) :
          Flag("Preamble", k) <=>
             \E j \in 1..k :
                /\ hlIn[j][1] = Tok("DocumentClass")
                /\ \A i \in (j + 1)..k :
                      hlIn[i][1] # TokP("EnvironmentBegin", DocumentName)

\* \documentclass and the word after it are highlighted, \begin{document} is not
C10_Witness ==
    /\ Len(hlIn) = 3
    /\ hlIn[1][1] = Tok("DocumentClass")
    /\ hlIn[2][1] = Tok("Word")
    /\ hlIn[3][1] = TokP("EnvironmentBegin", DocumentName)
    /\ Flag("Preamble", 1) /\ Flag("Preamble", 2) /\ ~Flag("Preamble", 3)
    /\ ~preamble.in_preamble

\* C11: the Document highlighter includes both delimiters: every step on
\* \begin{document} yields true and enters the document, every step on
\* \end{document} yields true and leaves it (also when taken outside the
\* document), and every step on another token yields true inside the document
\* and false outside it, without changing the state.
C11_DocumentStep ==
    [][ Fed =>
           CASE LastIn[1] = TokP("EnvironmentBegin", DocumentName) ->
                  /\ LastOut("Document") = <<TRUE, LastIn>>
                  /\ document'.in_document
             [] LastIn[1] = TokP("EnvironmentEnd", DocumentName) ->
                  /\ LastOut("Document") = <<TRUE, LastIn>>
                  /\ ~document'.in_document
             [] OTHER ->
                  /\ LastOut("Document") = <<document.in_document, LastIn>>
                  /\ document' = document ]_vars

\* \end{document} met outside the document was highlighted, the word after it
\* was not, and \begin{document} was highlighted and entered the document
C11_Witness ==
    /\ Len(hlIn) = 3
    /\ hlIn[1][1] = TokP("EnvironmentEnd", DocumentName)
    /\ hlIn[2][1] = Tok("Word")
    /\ hlIn[3][1] = TokP("EnvironmentBegin", DocumentName)
    /\ Flag("Document", 1) /\ ~Flag("Document", 2) /\ Flag("Document", 3)
    /\ document.in_document

\* the stream $ word $
IsDollarWordDollar ==
    /\ Len(hlIn) = 3
    /\ hlIn[1][1] = Tok("DollarSign")
    /\ hlIn[2][1] = Tok("Word")
    /\ hlIn[3][1] = Tok("DollarSign")

\* C12: the DisplayMath highlighter is opened only by DisplayMathOpen,
\* DoubleDollarSign or \begin of equation, equation*, align or align*: it is in
\* math mode, or has highlighted a token, only if one of these came at or before
\* it, the closer it records is the closer of such an opener, and on the stream
\* $ word $ it highlights nothing while the Math highlighter highlights all three
\* tokens.
C12_DisplayMathOpeners ==
    /\ \A k \in 1..Len(hlIn) :
          Flag("DisplayMath", k) =>
             \E j \in 1..k : hlIn[j][1] \in OpenersOf("DisplayMath")
    /\ display_math.in_math_mode =>
          \E j \in 1..Len(hlIn) :
             /\ hlIn[j][1] \in OpenersOf("DisplayMath")
             /\ display_math.closing_token = RecordedCloser(hlIn[j][1])
    /\ IsDollarWordDollar =>
          /\ \A k \in 1..3 : ~Flag("DisplayMath", k) /\ Flag("Math", k)
          /\ ~display_math.in_math_mode

\* $ word $ has gone through: nothing highlighted by DisplayMath, all by Math
C12_Witness ==
    /\ IsDollarWordDollar
    /\ hlEnded
    /\ \A k \in 1..3 : ~Flag("DisplayMath", k) /\ Flag("Math", k)

\* C13: the InlineMath highlighter is opened only by DollarSign, recording
\* DollarSign as closer, or by InlineMathOpen, recording InlineMathClose: it is in
\* math mode, or has highlighted a token, only if one of the two came at or before
\* it, and a DollarSign met in math mode opened by DollarSign closes it.
C13_InlineMathOpeners ==
    /\ \A k \in 1..Len(hlIn) :
          Flag("InlineMath", k) =>
             \E j \in 1..k : hlIn[j][1] \in {Tok("DollarSign"), Tok("InlineMathOpen")}
    /\ inline_math.in_math_mode =>
          \/ /\ inline_math.closing_token = Tok("DollarSign")
             /\ \E j \in 1..Len(hlIn) : hlIn[j][1] = Tok("DollarSign")
          \/ /\ inline_math.closing_token = Tok("InlineMathClose")
             /\ \E j \in 1..Len(hlIn) : hlIn[j][1] = Tok("InlineMathOpen")
    /\ IsDollarWordDollar =>
          /\ \A k \in 1..3 : Flag("InlineMath", k)
          /\ ~inline_math.in_math_mode

\* \[ , \begin{equation} and $$ have gone through: the Math highlighter was
\* opened, the InlineMath highlighter highlighted nothing
C13_Witness ==
    /\ Len(hlIn) = 3
    /\ hlIn[1][1] = Tok("DisplayMathOpen")
    /\ hlIn[2][1] = TokP("EnvironmentBegin", EquationName)
    /\ hlIn[3][1] = Tok("DoubleDollarSign")
    /\ \A k \in 1..3 : ~Flag("InlineMath", k) /\ Flag("Math", k)
    /\ ~inline_math.in_math_mode

\* C15: the TokenHighlighter marks a token highlighted if and only if the token's
\* variant is the target discriminant, whatever its payload, so it highlights as
\* many items as the input holds tokens of that variant.
C15_TokenHighlighterMemoryless ==
    /\ \A k \in 1..Len(hlIn) :
          Flag("Token", k) <=> hlIn[k][1].kind = token_highlighter.token
    /\ Cardinality({k \in 1..Len(hlIn) : Flag("Token", k)})
          = Cardinality({k \in 1..Len(hlIn) : hlIn[k][1].kind = token_highlighter.token})

\* with target EnvironmentBegin, \begin{figure} and \begin{align*} are
\* highlighted and \end{align*} is not
C15_Witness ==
    /\ token_highlighter.token = "EnvironmentBegin"
    /\ Len(hlIn) = 3
    /\ hlIn[1][1] = TokP("EnvironmentBegin", FigureName)
    /\ hlIn[2][1] = TokP("EnvironmentBegin", AlignStarName)
    /\ hlIn[3][1] = TokP("EnvironmentEnd", AlignStarName)
    /\ Flag("Token", 1) /\ Flag("Token", 2) /\ ~Flag("Token", 3)

(***************************************************************************)
(* Claims about the highlighters over the tokenizer, and write_colorized.  *)
(***************************************************************************)
DollarsBefore(k) == Cardinality({j \in 1..(k - 1) : hlIn[j][1] = Tok("DollarSign")})

OnlyDollarDelimiters(tokens) ==
    \A j \in 1..Len(tokens) : tokens[j][1] \notin MathOpeners \ {Tok("DollarSign")}

\* C14: single dollar toggles the Math highlighter: over the tokens of a text
\* that holds no math opener but DollarSign, a token is highlighted if and only
\* if it is a DollarSign or an odd number of DollarSign tokens precede it; of the
\* seven tokens of "a $x$ b" exactly the third, fourth and fifth are highlighted.
C14_DollarToggles ==
    formatter = "Spanned" =>
       /\ OnlyDollarDelimiters(Tokenize(source, 0)) =>
             \A k \in 1..Len(hlOut["Math"]) :
                Flag("Math", k) <=>
                   \/ hlIn[k][1] = Tok("DollarSign")
                   \/ DollarsBefore(k) % 2 = 1
       /\ (source = ToggleExample /\ pc = "done") =>
             /\ [k \in 1..Len(hlIn) |-> hlIn[k][1].kind]
                   = <<"Word", "TabsOrSpaces", "DollarSign", "Word", "DollarSign",
                       "TabsOrSpaces", "Word">>
             /\ [k \in 1..Len(hlOut["Math"]) |-> Flag("Math", k)]
                   = <<FALSE, FALSE, TRUE, TRUE, TRUE, FALSE, FALSE>>

\* "a $x$ b" has gone through the tokenizer and the Math highlighter
C14_Witness ==
    /\ formatter = "Spanned"
    /\ source = ToggleExample
    /\ pc = "done"
    /\ Len(hlOut["Math"]) = 7
    /\ Flag("Math", 3) /\ Flag("Math", 4) /\ Flag("Math", 5)
    /\ ~Flag("Math", 2) /\ ~Flag("Math", 6)

\* the bytes an item stands for: its string if it is an OwnedString token, else
\* the bytes of the source at its span
ExpectedBytes(item) ==
    IF item[1].kind = "OwnedString" THEN item[1].payload ELSE Slice(source, item[2])

\* the bytes write_colorized has written for highlighter h
ColorizedBytes(h) == Concat([k \in 1..Len(sink[h]) |-> sink[h][k].bytes])

\* C20 (as stated): write_colorized never fails and writes, for each item of the
\* highlighted stream, the string of an OwnedString token and otherwise the bytes
\* of the source at the item's span, as write_formatted does.
C20_ColorizedWritesOwnedBytes ==
    /\ pc # "panicked"
    /\ \A h \in Highlighters :
          ColorizedBytes(h)
             = Concat([k \in 1..Len(hlOut[h]) |-> ExpectedBytes(hlOut[h][k][2])])

\* the calls the loop of the renderer is to make for one item (is_highlighted, item)
StyledCalls(out) ==
    IF out[1]
    THEN <<SetColor, WriteAll(ExpectedBytes(out[2])), Reset>>
    ELSE <<WriteAll(ExpectedBytes(out[2]))>>

\* C21 (as stated): after the initial reset the sink has received, for every item
\* the highlighter has yielded and in stream order, set_color, the token's bytes
\* and reset if the item is highlighted, and only the token's bytes otherwise: one
\* set/reset pair per highlighted token, the style never left set.
C21_StylePerToken ==
    \A h \in Highlighters :
       sink[h] = <<Reset>> \o Concat([k \in 1..Len(hlOut[h]) |-> StyledCalls(hlOut[h][k])])

(***************************************************************************)
(* Claims about the indentation level of the auto-indent formatter.        *)
(***************************************************************************)
KindOf(k) == fmtOut[k][1].kind

BeginDocument == TokP("EnvironmentBegin", DocumentName)

\* C16: no indentation before \begin{document}: while no \begin{document} has
\* been peeked the level is 0 and nothing has panicked, and every indentation
\* token emitted with no \begin{document} before it in the output (the one of
\* the line of the first \begin{document} included) is the empty string.
C16_NoIndentationBeforeDocument ==
    /\ ~fmt.inside_document =>
          fmt.target_indentation_level = 0 /\ ~fmt.panicked
    /\ \A k \in 1..Len(fmtOut) :
          (IsOwned(fmtOut[k]) /\ \A j \in 1..(k - 1) : fmtOut[j][1] # BeginDocument) =>
             fmtOut[k][1].payload = <<>>

\* a \begin of another environment and, on a later line, a line-leading \end
\* came before the first \begin{document}, which has been emitted
C16_Witness ==
    \E i, j, k \in 1..Len(fmtOut) :
       /\ i < j /\ j < k
       /\ KindOf(i) = "EnvironmentBegin" /\ fmtOut[i][1] # BeginDocument
       /\ KindOf(j) = "EnvironmentEnd" /\ IsOwned(fmtOut[j - 1])
       /\ fmtOut[k][1] = BeginDocument /\ IsOwned(fmtOut[k - 1])
       /\ \A n \in 1..(k - 1) : fmtOut[n][1] # BeginDocument

\* item k of the output is a token other than indentation and blanks
IsSolid(k) == KindOf(k) \notin {"OwnedString", "TabsOrSpaces"}

\* the last such token before item k, 0 if none
PrevSolid(k) ==
    LET S == {j \in 1..(k - 1) : IsSolid(j)}
    IN  IF S = {} THEN 0 ELSE CHOOSE j \in S : \A i \in S : i <= j

\* the first such token from item k on, 0 if none
NextSolid(k) ==
    LET S == {j \in k..Len(fmtOut) : IsSolid(j)}
    IN  IF S = {} THEN 0 ELSE CHOOSE j \in S : \A i \in S : j <= i

\* item j is rendered as text that ends a line
EndsTextLine(j) ==
    RenderedItem(j) # <<>> /\ RenderedItem(j)[Len(RenderedItem(j))] = "\n"

\* token k is the first non-blank token of its line of text
FirstOnTextLine(k) == PrevSolid(k) = 0 \/ EndsTextLine(PrevSolid(k))

\* token k is the first non-blank token after a Newline token or of the stream
FirstOnTokenLine(k) == PrevSolid(k) = 0 \/ KindOf(PrevSolid(k)) = "Newline"

\* the environments opened and not closed before item k
OpenBefore(k) ==
    Cardinality({j \in 1..(k - 1) : KindOf(j) = "EnvironmentBegin"})
    - Cardinality({j \in 1..(k - 1) : KindOf(j) = "EnvironmentEnd"})

\* the \begin that the \end at item j closes, 0 if none
MatchingBegin(j) ==
    LET S == {k \in 1..(j - 1) :
                KindOf(k) = "EnvironmentBegin" /\ OpenBefore(k) = OpenBefore(j) - 1}
    IN  IF S = {} THEN 0 ELSE CHOOSE k \in S : \A i \in S : i <= k

\* the environment tokens of the output are properly nested with matching names,
\* every outermost environment being document
Balanced ==
    /\ OpenBefore(Len(fmtOut) + 1) = 0
    /\ \A k \in 1..Len(fmtOut) :
          /\ (KindOf(k) = "EnvironmentBegin" /\ OpenBefore(k) = 0) =>
                fmtOut[k][1] = BeginDocument
          /\ KindOf(k) = "EnvironmentEnd" =>
                /\ OpenBefore(k) > 0
                /\ MatchingBegin(k) # 0
                /\ fmtOut[MatchingBegin(k)][1].payload = fmtOut[k][1].payload

\* the level the claim gives the line that item k starts
ExpectedLevel(k) ==
    IF NextSolid(k) # 0 /\ KindOf(NextSolid(k)) = "EnvironmentEnd"
    THEN OpenBefore(k) - 1
    ELSE OpenBefore(k)

\* the run of blanks that the rendered text has from item k on
RECURSIVE BlankRunFrom(_)
BlankRunFrom(k) ==
    IF k > Len(fmtOut) THEN 0
    ELSE LET n == LeadingBlanks(RenderedItem(k))
         IN  IF n = Len(RenderedItem(k)) THEN n + BlankRunFrom(k + 1) ELSE n

LineIndentedAsExpected(k) == BlankRunFrom(k) = 2 * ExpectedLevel(k)

\* C17 (as stated): in a balanced document where every \end is the first
\* non-blank token of its line of text and every \begin after \begin{document}
\* is the first of its line of text, every line of the rendered text begins with
\* two spaces for each environment opened on earlier lines and not closed, a
\* line that starts with \end being indented as the line of its \begin.
C17_LinesIndentedByDepth ==
    ( /\ pc = "done"
      /\ Balanced
      /\ \A k \in 1..Len(fmtOut) :
            /\ KindOf(k) = "EnvironmentEnd" => FirstOnTextLine(k)
            /\ (KindOf(k) = "EnvironmentBegin" /\ OpenBefore(k) > 0) => FirstOnTextLine(k) )
    => \A k \in 1..Len(fmtOut) : StartsRenderedLine(k) => LineIndentedAsExpected(k)

\* C17 (amended): the same for lines ended by Newline tokens: in a balanced
\* document where every \end is the first non-blank token after a Newline token
\* (or of the stream) and so is every \begin after \begin{document}, every
\* indentation token starts a line that begins with exactly two spaces for each
\* environment opened on earlier lines and not closed, a line that starts with
\* \end being indented as the line of its \begin.
C17_TokenLinesIndentedByDepth ==
    ( /\ pc = "done"
      /\ Balanced
      /\ \A k \in 1..Len(fmtOut) :
            /\ KindOf(k) = "EnvironmentEnd" => FirstOnTokenLine(k)
            /\ (KindOf(k) = "EnvironmentBegin" /\ OpenBefore(k) > 0) => FirstOnTokenLine(k) )
    => \A k \in 1..Len(fmtOut) :
          IsOwned(fmtOut[k]) =>
             /\ LineIndentedAsExpected(k)
             /\ fmtOut[k][1].payload = Spaces(2 * ExpectedLevel(k))

\* a balanced document has been formatted to its end: inside the document the
\* line of a \begin and the line of its \end both got two spaces, and the line
\* of \end{document} got none
C17_Witness ==
    /\ pc = "done"
    /\ Balanced
    /\ \A k \in 1..Len(fmtOut) :
          /\ KindOf(k) = "EnvironmentEnd" => FirstOnTokenLine(k)
          /\ (KindOf(k) = "EnvironmentBegin" /\ OpenBefore(k) > 0) => FirstOnTokenLine(k)
    /\ \E k, j, i \in 1..(Len(fmtOut) - 1) :
          /\ k < j /\ j < i
          /\ fmtOut[k][1] = TokP("OwnedString", Spaces(2))
          /\ KindOf(k + 1) = "EnvironmentBegin"
          /\ fmtOut[j][1] = TokP("OwnedString", Spaces(2))
          /\ KindOf(j + 1) = "EnvironmentEnd"
          /\ MatchingBegin(j + 1) = k + 1
          /\ fmtOut[i][1] = TokP("OwnedString", <<>>)
          /\ fmtOut[i + 1][1] = TokP("EnvironmentEnd", DocumentName)

\* C18 (as stated): inside the document a \begin{x} ... \end{x} pair with no
\* environment token between them leaves the level as it was before the pair,
\* wherever on their lines the two tokens stand.
C18_PairRestoresLevel ==
    \A k, j \in 2..Len(fmtOut) :
       ( /\ k < j
         /\ KindOf(k) = "EnvironmentBegin"
         /\ \E i \in 1..k : fmtOut[i][1] = BeginDocument
         /\ fmtOut[j][1] = TokP("EnvironmentEnd", fmtOut[k][1].payload)
         /\ \A i \in (k + 1)..(j - 1) :
               KindOf(i) \notin {"EnvironmentBegin", "EnvironmentEnd"} )
       => fmtLevels[j] = fmtLevels[k - 1]

\* C19 (as stated): the level never underflows: the formatter never panics and
\* the level never exceeds the number of \begin tokens it has emitted.
C19_LevelNeverUnderflows ==
    /\ pc # "panicked"
    /\ fmt.target_indentation_level
          <= Cardinality({k \in 1..Len(fmtOut) : KindOf(k) = "EnvironmentBegin"})

(***************************************************************************)
(* Claims about the tokens the formatters let through.                     *)
(***************************************************************************)
\* item k of tokens is a TabsOrSpaces token at the start of the stream or directly
\* after a Newline token
LineLeading(tokens, k) ==
    /\ tokens[k][1].kind = "TabsOrSpaces"
    /\ k = 1 \/ tokens[k - 1][1].kind = "Newline"

\* the input of the formatter without its line-leading TabsOrSpaces tokens
WithoutLineLeading(tokens) ==
    LET kept == SelectSeq([k \in 1..Len(tokens) |-> k],
                          LAMBDA k : ~LineLeading(tokens, k))
    IN  [i \in 1..Len(kept) |-> tokens[kept[i]]]

\* the output of the formatter without its OwnedString tokens
WithoutOwned(out) == SelectSeq(out, LAMBDA item : ~IsOwned(item))

IsPrefix(s, t) == Len(s) <= Len(t) /\ s = SubSeq(t, 1, Len(s))

\* C22: the auto-indent formatter changes only line-leading whitespace: its output
\* without the OwnedString tokens is, item for item (token and span), its input
\* without the line-leading TabsOrSpaces tokens: all of it once the formatter has
\* returned None, a prefix of it if the formatter has stopped early.
C22_OnlyLineLeadingBlanksChange ==
    /\ pc = "done" =>
          WithoutOwned(fmtOut) = WithoutLineLeading(Tokenize(source, 0))
    /\ pc = "panicked" =>
          IsPrefix(WithoutOwned(fmtOut), WithoutLineLeading(Tokenize(source, 0)))

\* the formatter has run to the end of an input that holds a blank in the middle
\* of a line, which it has emitted, and a blank at the start of a later line, which
\* it has dropped
C22_Witness ==
    /\ pc = "done"
    /\ LET tokens == Tokenize(source, 0)
       IN  /\ \E k \in 2..Len(tokens) : LineLeading(tokens, k)
           /\ \E k \in 2..Len(tokens) :
                 /\ tokens[k][1].kind = "TabsOrSpaces"
                 /\ ~LineLeading(tokens, k)
                 /\ \E j \in 1..Len(fmtOut) : fmtOut[j] = tokens[k]
    /\ \E j \in 1..Len(fmtOut) : IsOwned(fmtOut[j]) /\ fmtOut[j][1].payload # <<>>

\* C23: the comment-dropping formatter of the format command yields the tokenizer's
\* output without its Comment tokens: every other item unchanged (token and span)
\* and in order, a prefix of it while it runs and all of it once it has returned
\* None; what is written is then the source without the text of its comments.
C23_DummyDropsOnlyComments ==
    LET tokens == Tokenize(source, 0)
        others == SelectSeq(tokens, LAMBDA item : item[1].kind # "Comment")
    IN  /\ IsPrefix(fmtOut, others)
        /\ pc = "done" =>
              /\ fmtOut = others
              /\ buffer = Concat([k \in 1..Len(others) |-> Slice(source, others[k][2])])

\* the formatter has run to the end of a source with a comment between two other
\* tokens and an escaped percent sign
C23_Witness ==
    /\ formatter = "Dummy"
    /\ pc = "done"
    /\ LET tokens == Tokenize(source, 0)
       IN  /\ \E k \in 2..(Len(tokens) - 1) : tokens[k][1].kind = "Comment"
           /\ \E k \in 1..Len(tokens) : tokens[k][1].kind = "EscapedChar"
    /\ Len(buffer) < Len(source)

(***************************************************************************)
(* Claims about the rules of the tokenizer.                                *)
(***************************************************************************)
KindAt(k) == lexOut[k][1].kind

\* the bytes of the source from the start of token k on
FromToken(k) == SubSeq(source, SpanOf(lexOut[k])[1] + 1, Len(source))

\* the text of token k
Lexeme(k) == Slice(source, SpanOf(lexOut[k]))

\* C24: a token that starts on two consecutive dollar characters is the two-byte
\* DoubleDollarSign, so no two DollarSign tokens have adjacent spans; "$$$" is
\* DoubleDollarSign then DollarSign.
C24_DoubleDollarWins ==
    /\ \A k \in 1..Len(lexOut) :
          /\ StartsWith(FromToken(k), 1, <<"$", "$">>) =>
                /\ KindAt(k) = "DoubleDollarSign"
                /\ Lexeme(k) = <<"$", "$">>
          /\ (k > 1 /\ SpanOf(lexOut[k - 1])[2] = SpanOf(lexOut[k])[1]) =>
                ~(KindAt(k - 1) = "DollarSign" /\ KindAt(k) = "DollarSign")
    /\ (source = <<"$", "$", "$">> /\ lexEnded) =>
          lexOut = << <<Tok("DoubleDollarSign"), <<0, 2>>>>, <<Tok("DollarSign"), <<2, 3>>>> >>

\* "$$$" has been tokenized to the end
C24_Witness ==
    /\ source = <<"$", "$", "$">>
    /\ lexEnded
    /\ Len(lexOut) = 2

\* text is one or more letters, then at most one "*"
IsEnvironmentName(text) ==
    /\ Len(text) >= 1
    /\ text[1] \in Letters
    /\ \A i \in 1..(Len(text) - 1) : text[i] \in Letters
    /\ text[Len(text)] \in Letters \cup {"*"}

\* C25: the payload of an EnvironmentBegin token of span [s, e) is
\* source[s+7 .. e-1], that of an EnvironmentEnd token source[s+5 .. e-1]: these
\* ranges lie inside the lexeme and hold the text strictly between the braces,
\* which is one or more letters and then at most one "*".
C25_EnvironmentPayload ==
    \A k \in 1..Len(lexOut) :
       LET s == SpanOf(lexOut[k])[1]
           e == SpanOf(lexOut[k])[2]
           skip == IF KindAt(k) = "EnvironmentBegin" THEN 7 ELSE 5
       IN  KindAt(k) \in {"EnvironmentBegin", "EnvironmentEnd"} =>
              /\ s + skip < e - 1
              /\ lexOut[k][1].payload = Slice(source, <<s + skip, e - 1>>)
              /\ source[s + skip] = "{"
              /\ source[e] = "}"
              /\ SubSeq(source, s + 1, s + skip - 1)
                    = IF KindAt(k) = "EnvironmentBegin"
                      THEN <<"\\", "b", "e", "g", "i", "n">>
                      ELSE <<"\\", "e", "n", "d">>
              /\ IsEnvironmentName(lexOut[k][1].payload)

\* a \begin token whose name ends with "*" has been yielded
C25_Witness ==
    \E k \in 1..Len(lexOut) :
       /\ KindAt(k) = "EnvironmentBegin"
       /\ lexOut[k][1].payload = <<"a", "*">>
       /\ SpanOf(lexOut[k]) = <<0, 10>>

\* the length of "{name}" at the head of text, name being letters and then at most
\* one "*"; 0 if text does not start so
BracedNameLen(text) ==
    LET closing == {i \in 3..Len(text) :
                      /\ text[1] = "{"
                      /\ text[i] = "}"
                      /\ IsEnvironmentName(SubSeq(text, 2, i - 1))}
    IN  IF closing = {} THEN 0 ELSE CHOOSE i \in closing : TRUE

\* the letters that follow the first byte of text, up to the first non-letter
LetterRun(text) ==
    LET stops == {i \in 2..Len(text) : text[i] \notin Letters}
        stop == IF stops = {} THEN Len(text) + 1
                ELSE CHOOSE i \in stops : \A j \in stops : i <= j
    IN  SubSeq(text, 2, stop - 1)

\* C26: a token that starts at a backslash followed by a letter covers the
\* backslash and the maximal run of letters and is a CommandName, except that the
\* run "documentclass" makes it a DocumentClass and that the runs "begin" and
\* "end", directly followed by "{name}", make it an EnvironmentBegin /
\* EnvironmentEnd that also covers "{name}".
C26_BackslashLetters ==
    \A k \in 1..Len(lexOut) :
       LET text == FromToken(k)
           run == LetterRun(text)
           braced == BracedNameLen(SubSeq(text, Len(run) + 2, Len(text)))
           len == SpanOf(lexOut[k])[2] - SpanOf(lexOut[k])[1]
       IN  (text[1] = "\\" /\ run # <<>>) =>
              CASE run = <<"b", "e", "g", "i", "n">> /\ braced > 0 ->
                     KindAt(k) = "EnvironmentBegin" /\ len = 6 + braced
                [] run = <<"e", "n", "d">> /\ braced > 0 ->
                     KindAt(k) = "EnvironmentEnd" /\ len = 4 + braced
                [] run = <<"d", "o", "c", "u", "m", "e", "n", "t", "c", "l", "a", "s", "s">> ->
                     KindAt(k) = "DocumentClass" /\ len = 14
                [] OTHER ->
                     KindAt(k) = "CommandName" /\ len = 1 + Len(run)

\* "\documentclasses" has been yielded as one CommandName
C26_Witness ==
    /\ source = <<"\\", "d", "o", "c", "u", "m", "e", "n", "t", "c", "l", "a", "s", "s",
                  "e", "s">>
    /\ lexOut = << <<Tok("CommandName"), <<0, 16>>>> >>

\* token k starts at a backslash that is followed by a character that is no letter
EscapesNonLetter(k) ==
    /\ Len(FromToken(k)) >= 2
    /\ FromToken(k)[1] = "\\"
    /\ FromToken(k)[2] \notin Letters

\* C27: when a token starts at a backslash followed by a non-letter character, the
\* whole of that character belongs to the token: no token starts at the character,
\* so it is never yielded as And, BraceOpen, BracketOpen, ParenClose, Comma, Dot,
\* PlusSign ... on its own.
C27_EscapedCharacterNotStandalone ==
    \A k \in 1..Len(lexOut) :
       EscapesNonLetter(k) =>
          /\ SpanOf(lexOut[k])[2] >= SpanOf(lexOut[k])[1] + 1 + CharLen(FromToken(k), 2)
          /\ \A j \in 1..Len(lexOut) : SpanOf(lexOut[j])[1] # SpanOf(lexOut[k])[1] + 1

\* "\+" and "\&" at the head of a source have each been yielded as one token
C27_Witness ==
    /\ Len(lexOut) >= 1
    /\ SpanOf(lexOut[1]) = <<0, 2>>
    /\ source[2] \in {"+", "&"}
    /\ lexEnded

\* C28: a token that starts at a backslash followed by a non-letter character c is
\* the backslash and c, and its variant is decided by c alone: EscapedChar for
\* { } _ $ & % #, InsertSpace for , : ; ! and the space, DisplayMathOpen / Close
\* for [ ], InlineMathOpen / Close for ( ), DoubleBackslash for a backslash, and
\* InvalidCommand for every other character.
C28_ClassifiedBySecondCharacter ==
    \A k \in 1..Len(lexOut) :
       LET c == FromToken(k)[2]
       IN  EscapesNonLetter(k) =>
              /\ Lexeme(k) = SubSeq(FromToken(k), 1, 1 + CharLen(FromToken(k), 2))
              /\ KindAt(k) =
                    CASE c \in {"{", "}", "_", "$", "&", "%", "#"} -> "EscapedChar"
                      [] c \in {",", ":", ";", "!", " "} -> "InsertSpace"
                      [] c = "[" -> "DisplayMathOpen"
                      [] c = "]" -> "DisplayMathClose"
                      [] c = "(" -> "InlineMathOpen"
                      [] c = ")" -> "InlineMathClose"
                      [] c = "\\" -> "DoubleBackslash"
                      [] OTHER -> "InvalidCommand"

\* a source has been scanned to its end and a backslash sequence of one of the
\* specific variants, which InvalidCommand matches as well, has been yielded
C28_Witness ==
    /\ lexEnded
    /\ \E k \in 1..Len(lexOut) :
          /\ EscapesNonLetter(k)
          /\ KindAt(k) \in {"EscapedChar", "InsertSpace", "DisplayMathOpen",
                            "InlineMathClose", "DoubleBackslash"}

\* byte i (1-based) of the source is the "\r" of a "\r\n" pair
IsCarriageReturnOfPair(i) ==
    /\ i >= 1
    /\ i < Len(source)
    /\ source[i] = "\r"
    /\ source[i + 1] = "\n"

\* C29 (as stated): a Comment token starts at a "%" and extends to the end of its
\* line exclusive of the line terminator, "\n" or "\r\n": its slice holds no byte
\* of the terminator, the source ends or the terminator starts right after it, and
\* the token that follows it is a Newline.
C29_CommentExcludesLineEnding ==
    \A k \in 1..Len(lexOut) :
       LET s == SpanOf(lexOut[k])[1]
           e == SpanOf(lexOut[k])[2]
       IN  KindAt(k) = "Comment" =>
              /\ source[s + 1] = "%"
              /\ \A i \in (s + 1)..e : source[i] # "\n" /\ ~IsCarriageReturnOfPair(i)
              /\ e < Len(source) => source[e + 1] = "\n" \/ IsCarriageReturnOfPair(e + 1)
              /\ k < Len(lexOut) => KindAt(k + 1) = "Newline"

\* C30 (as stated): every "\n" scanned so far, with the "\r" before it if there is
\* one, is the whole of one Newline token, and a Newline token is nothing else;
\* every blank scanned so far lies in a TabsOrSpaces token, and a TabsOrSpaces
\* token is a maximal run of blanks, so that no two of them are adjacent.
C30_NewlinesAndBlankRuns ==
    /\ \A i \in 1..token_end :
          source[i] = "\n" =>
             \E k \in 1..Len(lexOut) :
                /\ KindAt(k) = "Newline"
                /\ SpanOf(lexOut[k]) = <<IF IsCarriageReturnOfPair(i - 1) THEN i - 2 ELSE i - 1, i>>
    /\ \A i \in 1..token_end :
          source[i] \in Blanks =>
             \E k \in 1..Len(lexOut) :
                /\ KindAt(k) = "TabsOrSpaces"
                /\ SpanOf(lexOut[k])[1] < i
                /\ i <= SpanOf(lexOut[k])[2]
    /\ \A k \in 1..Len(lexOut) :
          LET s == SpanOf(lexOut[k])[1]
              e == SpanOf(lexOut[k])[2]
          IN  /\ KindAt(k) = "Newline" => Lexeme(k) \in {<<"\n">>, <<"\r", "\n">>}
              /\ KindAt(k) = "TabsOrSpaces" =>
                    /\ \A i \in (s + 1)..e : source[i] \in Blanks
                    /\ s > 0 => source[s] \notin Blanks
                    /\ e < Len(source) => source[e + 1] \notin Blanks
              /\ (k > 1 /\ KindAt(k) = "TabsOrSpaces") => KindAt(k - 1) # "TabsOrSpaces"

\* token k starts at a backslash or is a comment
IsBackslashOrComment(k) == Lexeme(k)[1] = "\\" \/ KindAt(k) = "Comment"

\* byte i (1-based) of the scanned part of the source lies in a token that starts
\* at a backslash or is a comment
InBackslashOrComment(i) ==
    \E k \in 1..Len(lexOut) :
       /\ SpanOf(lexOut[k])[1] < i
       /\ i <= SpanOf(lexOut[k])[2]
       /\ IsBackslashOrComment(k)

\* token k is a maximal run of bytes of set, backslash tokens and comments aside,
\* and the only kind of token that holds such bytes
RunToken(k, kind, set) ==
    LET s == SpanOf(lexOut[k])[1]
        e == SpanOf(lexOut[k])[2]
    IN  /\ KindAt(k) = kind =>
              /\ \A i \in (s + 1)..e : source[i] \in set
              /\ (s > 0 /\ source[s] \in set) => IsBackslashOrComment(k - 1)
              /\ e < Len(source) => source[e + 1] \notin set
              /\ k > 1 => KindAt(k - 1) # kind
        /\ (KindAt(k) # kind /\ ~IsBackslashOrComment(k)) =>
              \A i \in (s + 1)..e : source[i] \notin set

\* C31: outside the tokens that start at a backslash and outside comments, a
\* Word token is a maximal run of letters and every letter lies in a Word token;
\* a Number token is a maximal run of digits and every digit lies in a Number
\* token; no two Word tokens and no two Number tokens are adjacent; "a1" is a
\* Word followed by a Number.
C31_WordsAndNumbers ==
    /\ \A k \in 1..Len(lexOut) :
          /\ RunToken(k, "Word", Letters)
          /\ RunToken(k, "Number", Digits)
    /\ (source = <<"a", "1">> /\ lexEnded) =>
          lexOut = << <<Tok("Word"), <<0, 1>>>>, <<Tok("Number"), <<1, 2>>>> >>

\* a run of two letters and then a digit have been yielded as a Word and a Number
C31_Witness ==
    /\ source = <<"a", "a", "1">>
    /\ lexOut = << <<Tok("Word"), <<0, 2>>>>, <<Tok("Number"), <<2, 3>>>> >>

\* C32: every Other token spans exactly one character of the source, which no
\* rule of the tokenizer matches: it starts on a character boundary and ends on
\* the next one, so consecutive unmatched characters give separate Other tokens.
C32_OtherIsOneCharacter ==
    \A k \in 1..Len(lexOut) :
       LET s == SpanOf(lexOut[k])[1]
           e == SpanOf(lexOut[k])[2]
       IN  KindAt(k) = "Other" =>
              /\ source[s + 1] \notin ContinuationBytes
              /\ e = s + (IF source[s + 1] \in LeadBytes THEN 2 ELSE 1)
              /\ e < Len(source) => source[e + 1] \notin ContinuationBytes

\* a lone carriage return, a two-byte character and a trailing backslash have
\* been yielded as three Other tokens
C32_Witness ==
    /\ source = <<"\r", "xC3", "xA9", "\\">>
    /\ lexEnded
    /\ lexOut = << <<Tok("Other"), <<0, 1>>>>, <<Tok("Other"), <<1, 3>>>>,
                   <<Tok("Other"), <<3, 4>>>> >>

(***************************************************************************)
(* Further claims about the highlighters.                                  *)
(***************************************************************************)
\* C33: math tracking is flat: a step of the Math, DisplayMath or InlineMath
\* highlighter taken inside math mode on a token other than the recorded closer,
\* an opener or a closer of another kind included, leaves in_math_mode and the
\* recorded closer as they were; so after $ \[ $ the region opened by the first $
\* has ended and a \] that follows is not highlighted.
C33_FlatTracking ==
    [][ Fed =>
           /\ (math.in_math_mode /\ LastIn[1] # math.closing_token) => math' = math
           /\ (display_math.in_math_mode /\ LastIn[1] # display_math.closing_token) =>
                 display_math' = display_math
           /\ (inline_math.in_math_mode /\ LastIn[1] # inline_math.closing_token) =>
                 inline_math' = inline_math
           /\ ( /\ Len(hlIn') = 3
                /\ hlIn'[1][1] = Tok("DollarSign")
                /\ hlIn'[2][1] = Tok("DisplayMathOpen")
                /\ hlIn'[3][1] = Tok("DollarSign") ) =>
                 /\ \A k \in 1..3 : hlOut'["Math"][k][1]
                 /\ math' = NewMathHighlighter
                 /\ MathHighlighterNext(math', <<Tok("DisplayMathClose"), <<3, 4>>>>).out
                       = << <<FALSE, <<Tok("DisplayMathClose"), <<3, 4>>>>>> >> ]_vars

\* $ \[ $ has been fed: the Math highlighter has closed on the second $, the
\* DisplayMath highlighter, opened by \[, has kept its closer \] over the $
C33_Witness ==
    /\ Len(hlIn) = 3
    /\ hlIn[1][1] = Tok("DollarSign")
    /\ hlIn[2][1] = Tok("DisplayMathOpen")
    /\ hlIn[3][1] = Tok("DollarSign")
    /\ Flag("Math", 1) /\ Flag("Math", 2) /\ Flag("Math", 3)
    /\ ~math.in_math_mode
    /\ ~Flag("DisplayMath", 1) /\ Flag("DisplayMath", 2) /\ Flag("DisplayMath", 3)
    /\ display_math.in_math_mode
    /\ display_math.closing_token = Tok("DisplayMathClose")

\* C34: a math region that the Math or DisplayMath highlighter opens on
\* \begin{name} is closed only by \end{name} with the identical name: every token
\* up to and including the first such \end{name} is highlighted, the \end of any
\* other name included; until then the highlighter stays in math mode with
\* \end{name} recorded, and on that token it leaves math mode.
C34_ClosedByIdenticalName ==
    \A h \in {"Math", "DisplayMath"} :
       \A k \in 1..Len(hlIn) :
          ( /\ \A j \in 1..(k - 1) : ~Flag(h, j)
            /\ hlIn[k][1].kind = "EnvironmentBegin"
            /\ IsMathEnvironment(hlIn[k][1].payload) ) =>
             LET closer == TokP("EnvironmentEnd", hlIn[k][1].payload)
                 closes == {j \in (k + 1)..Len(hlIn) : hlIn[j][1] = closer}
             IN  /\ \A j \in k..Len(hlIn) : (\A i \in closes : j <= i) => Flag(h, j)
                 /\ closes = {} =>
                       /\ FieldsOf(h).in_math_mode
                       /\ FieldsOf(h).closing_token = closer
                 /\ Len(hlIn) \in closes /\ Cardinality(closes) = 1 =>
                       /\ ~FieldsOf(h).in_math_mode
                       /\ FieldsOf(h).closing_token = NoneToken

\* \begin{equation*} \end{equation} \end{equation*} has been fed: all three tokens
\* are highlighted and the region has closed on the third only
C34_Witness ==
    /\ Len(hlIn) = 3
    /\ hlIn[1][1] = TokP("EnvironmentBegin", EquationStarName)
    /\ hlIn[2][1] = TokP("EnvironmentEnd", EquationName)
    /\ hlIn[3][1] = TokP("EnvironmentEnd", EquationStarName)
    /\ \A h \in {"Math", "DisplayMath"} :
          /\ Flag(h, 1) /\ Flag(h, 2) /\ Flag(h, 3)
          /\ ~FieldsOf(h).in_math_mode

(***************************************************************************)
(* Further claims about the auto-indent formatter.                         *)
(***************************************************************************)
\* the level before item k was yielded
LevelBefore(k) == IF k = 1 THEN 0 ELSE fmtLevels[k - 1]

\* the first token of the line whose indentation token is item k: the token after
\* the line's leading tabs/spaces, None at the end of the stream
FirstOfLine(k) == IF k < Len(fmtOut) THEN fmtOut[k + 1][1] ELSE Peek(fmt)[1]

\* with decrements standing for "the level is one lower when the line's
\* indentation token is yielded than after the token before it" (modulo 2^8),
\* the level changes of a run of the formatter are those of one decrement for
\* each line for which ends(k) holds, none for the other lines, and none on the
\* calls that yield the tokens of a line
DecrementsOncePerLine(ends(_)) ==
    \A k \in 1..Len(fmtOut) :
       IF IsOwned(fmtOut[k])
       THEN fmtLevels[k] = IF ends(k)
                           THEN (LevelBefore(k) - 1) % U8Modulus
                           ELSE LevelBefore(k)
       ELSE fmtLevels[k] \in {LevelBefore(k), (LevelBefore(k) + 1) % U8Modulus}

CountKind(items, kind) == Len(SelectSeq(items, LAMBDA item : item[1].kind = kind))

\* C36: in the auto-indent formatter's output the OwnedString tokens are the first
\* item and the items right after a Newline token, and no others; once the
\* formatter has returned None every Newline of the input has been emitted and
\* there are 1 + the number of Newline tokens OwnedString tokens: for the empty
\* input the output is one empty indentation token, and for an input that ends
\* with a Newline the output ends with an indentation token.
C36_IndentationTokenPerLine ==
    /\ \A k \in 1..Len(fmtOut) :
          IsOwned(fmtOut[k]) <=> (k = 1 \/ fmtOut[k - 1][1].kind = "Newline")
    /\ pc = "done" =>
          LET tokens == Tokenize(source, 0)
          IN  /\ CountKind(fmtOut, "Newline") = CountKind(tokens, "Newline")
              /\ CountKind(fmtOut, "OwnedString") = 1 + CountKind(tokens, "Newline")
              /\ tokens = <<>> =>
                    fmtOut = << <<TokP("OwnedString", <<>>), <<0, 1>>>> >>
              /\ (tokens # <<>> /\ tokens[Len(tokens)][1].kind = "Newline") =>
                    /\ IsOwned(fmtOut[Len(fmtOut)])
                    /\ fmtOut[Len(fmtOut) - 1] = tokens[Len(tokens)]

\* the formatter has returned None on an input of three lines that ends with a
\* Newline: three line indentations and the trailing one have been emitted
C36_Witness ==
    /\ pc = "done"
    /\ CountKind(fmtOut, "Newline") = 3
    /\ CountKind(fmtOut, "OwnedString") = 4
    /\ IsOwned(fmtOut[Len(fmtOut)])
    /\ fmtOut[Len(fmtOut)][1].payload # <<>>

\* C37: in every reachable state of the Math, DisplayMath and InlineMath
\* highlighters in_math_mode is true if and only if closing_token is Some, and no
\* call of next() has panicked on the unwrap of closing_token.
C37_InMathModeIffCloser ==
    \A h \in MathKinds :
        /\ FieldsOf(h).in_math_mode <=> FieldsOf(h).closing_token # NoneToken
        /\ ~FieldsOf(h).panicked

\* after $ $ $ the Math and InlineMath highlighters have opened, closed and opened
\* again, holding the closing token of the open region; DisplayMath never opened
C37_Witness ==
    /\ Len(hlIn) = 3
    /\ \A k \in 1..3 : hlIn[k][1] = Tok("DollarSign")
    /\ \A h \in {"Math", "InlineMath"} :
          /\ FieldsOf(h).in_math_mode
          /\ FieldsOf(h).closing_token = Tok("DollarSign")
          /\ Flag(h, 1) /\ Flag(h, 2) /\ Flag(h, 3)
    /\ ~display_math.in_math_mode
    /\ display_math.closing_token = NoneToken

\* the formatter's next() has yielded an item
Yielded == Len(fmtOut') = Len(fmtOut) + 1

YieldedItem == fmtOut'[Len(fmtOut')]

\* the first token of the formatter's input that is not a tab/space run
FirstSolid(f) ==
    LET solid == SelectSeq(f.iter, LAMBDA item : item[1].kind # "TabsOrSpaces")
    IN  IF solid = <<>> THEN NoneItem[1] ELSE solid[1][1]

\* \begin{document} and, after it, \end{document} have been yielded
DocumentClosed ==
    \E i, j \in 1..Len(fmtOut) :
       /\ i < j
       /\ fmtOut[i][1] = BeginDocument
       /\ fmtOut[j][1] = TokP("EnvironmentEnd", DocumentName)

\* C38: inside_document is false initially; a call of next() turns it true only by
\* peeking EnvironmentBegin("document"), and does so whenever it peeks that token;
\* no call turns it back to false, and after \end{document} a yielded
\* EnvironmentBegin still raises the level by one and the indentation of a line
\* that starts with an EnvironmentEnd is still yielded one level lower.
C38_InsideDocumentMonotone ==
    /\ ~fmt.inside_document
    /\ [][/\ fmt.inside_document => fmt'.inside_document
          /\ Peek(fmt)[1] = BeginDocument => fmt'.inside_document
          /\ (~fmt.inside_document /\ fmt'.inside_document) =>
                /\ FirstSolid(fmt) = BeginDocument
                /\ Peek(fmt)[1] = BeginDocument \/ ~fmt.is_indented
          /\ (DocumentClosed /\ Yielded) =>
                /\ fmt'.inside_document
                /\ YieldedItem[1].kind = "EnvironmentBegin" =>
                      fmt'.target_indentation_level =
                         (fmt.target_indentation_level + 1) % U8Modulus
                /\ (IsOwned(YieldedItem) /\ Peek(fmt')[1].kind = "EnvironmentEnd") =>
                      fmt'.target_indentation_level =
                         (fmt.target_indentation_level - 1) % U8Modulus
         ]_vars

\* the formatter has returned None after yielding \begin{document}, \end{document}
\* and then a \begin that raised the level and a line-leading \end that lowered it
C38_Witness ==
    /\ pc = "done"
    /\ fmt.inside_document
    /\ \E i, j, k, l \in 1..Len(fmtOut) :
          /\ i < j /\ j < k /\ k < l /\ l < Len(fmtOut)
          /\ fmtOut[i][1] = BeginDocument
          /\ fmtOut[j][1] = TokP("EnvironmentEnd", DocumentName)
          /\ fmtOut[k][1].kind = "EnvironmentBegin"
          /\ fmtLevels[k] = fmtLevels[k - 1] + 1
          /\ IsOwned(fmtOut[l])
          /\ fmtOut[l + 1][1].kind = "EnvironmentEnd"
          /\ fmtLevels[l] = fmtLevels[l - 1] - 1

\* no token of the stream fed so far is in the set
StreamWithout(tokens) == \A k \in 1..Len(hlIn) : hlIn[k][1] \notin tokens

\* the openers of the Math highlighter that DisplayMath / InlineMath leaves out
InlineOnlyOpeners == {Tok("DollarSign"), Tok("InlineMathOpen")}

DisplayOnlyOpeners ==
    {Tok("DisplayMathOpen"), Tok("DoubleDollarSign")}
    \cup { TokP("EnvironmentBegin", n) :
             n \in {EquationName, EquationStarName, AlignName, AlignStarName} }

\* C39: on every token stream without DollarSign and InlineMathOpen the
\* DisplayMath highlighter's output equals the Math highlighter's output item by
\* item, and on every stream without DisplayMathOpen, DoubleDollarSign and
\* EnvironmentBegin of equation, equation*, align or align* the InlineMath
\* highlighter's output equals the Math highlighter's output.
C39_RestrictionsOfMath ==
    /\ StreamWithout(InlineOnlyOpeners) =>
          /\ hlOut["DisplayMath"] = hlOut["Math"]
          /\ display_math = math
    /\ StreamWithout(DisplayOnlyOpeners) =>
          /\ hlOut["InlineMath"] = hlOut["Math"]
          /\ inline_math = math

\* after $$ \) $$, a stream without $ and \(, the Math and the DisplayMath
\* highlighter have opened on the first $$, kept the region open over \) and
\* closed on the second $$, highlighting all three tokens
C39_Witness ==
    /\ Len(hlIn) = 3
    /\ hlIn[1][1] = Tok("DoubleDollarSign")
    /\ hlIn[2][1] = Tok("InlineMathClose")
    /\ hlIn[3][1] = Tok("DoubleDollarSign")
    /\ hlOut["DisplayMath"] = hlOut["Math"]
    /\ \A k \in 1..3 : Flag("Math", k)
    /\ ~math.in_math_mode

(***************************************************************************)
(* Claims about the dependency scanner.                                    *)
(***************************************************************************)
\* the token the token stream has returned in this step
ReturnedToken == CurrentToken(source, token_stream')

\* the slice matches one of the five patterns tried on Command tokens
MatchesDirective(s) ==
    \/ RE_INPUT(s).matched
    \/ RE_IMAGE(s).matched
    \/ RE_BIBLI(s).matched
    \/ RE_LISTI(s).matched
    \/ RE_MINTD(s).matched

\* this step has pushed n dependencies
Pushed(n) ==
    /\ Len(dependencies') = Len(dependencies) + n
    /\ SubSeq(dependencies', 1, Len(dependencies)) = dependencies

\* C40 (as stated): a dependency is recorded only when a token of kind Command
\* matches one of the include-style directive patterns; tokens of any other kind
\* (Text, Comment, Linebreak, Math, Error) never add a dependency.
C40_OnlyCommandTokens ==
    [][IF ~depsEnded' /\ ReturnedToken.kind = "Command"
          /\ MatchesDirective(ReturnedToken.slice)
       THEN Pushed(1)
       ELSE Pushed(0)]_vars

\* C40 (amended): a dependency is recorded only when a token of kind Command
\* matches one of the five directive patterns or a token of kind Text matches the
\* table pattern {....txt}, one dependency for such a token; tokens of kind
\* Comment, Linebreak, Math and Error never add a dependency.
C40_OnlyCommandAndTextTokens ==
    [][IF /\ ~depsEnded'
          /\ \/ /\ ReturnedToken.kind = "Command"
                /\ MatchesDirective(ReturnedToken.slice)
             \/ /\ ReturnedToken.kind = "Text"
                /\ RE_TABLE(ReturnedToken.slice).matched
       THEN Pushed(1)
       ELSE /\ Pushed(0)
            /\ ReturnedToken.kind \in {"Command", "Text", "Comment", "Linebreak",
                                       "Math", "Error"}]_vars

\* the scan of {a.txt}$\input{a} has ended: the Text token {a.txt} has added
\* a.txt, and the Error token $\input{a}, which holds a directive, has added nothing
C40_Witness ==
    /\ depsEnded
    /\ source = <<"{", "a">> \o DOTTXT \o <<"}", "$">> \o INPUT \o <<"{", "a", "}">>
    /\ dependencies = << <<"a">> \o DOTTXT >>

====
